---------------------------- MODULE Spec2Model ----------------------------
(***************************************************************************)
(* Model of the CVSS / CWE statistics scripts of updatOR:                  *)
(*   src/src/cvss_metrics.py   vector parsing, field decoding, severity    *)
(*                             resolution and the aggregation loop         *)
(*   src/src/cwe_stats.py      weakness extraction and its aggregation     *)
(*   src/src/cvss_metric_plot.py  the same aggregation loop with the       *)
(*                             impact values normalised                     *)
(*                                                                         *)
(* Text is modelled as the sequence of its lexical tokens: the delimiters  *)
(* "/" and ":" and the maximal runs of other characters between them, so   *)
(* "AV:N/AC:L" is <<"AV", ":", "N", "/", "AC", ":", "L">>.  str.split is   *)
(* computed on that sequence.  A Python dict is a function whose DOMAIN is *)
(* the set of keys present; a Counter is a bag.  A base score is the       *)
(* integer number of tenths (9.8 is 98).  Where the case of letters matters *)
(* a text is the sequence of its characters and a Python value is a record *)
(* of its type and the text str() gives for it.                            *)
(***************************************************************************)
EXTENDS Integers, Sequences, FiniteSets, Bags, TLC

VARIABLES
    script,               \* which program runs: "parse", "block", "normalize",
                          \* "cvss_metrics", "cvss_metric_plot", "cwe_stats"
    pc,                   \* position of that program
    vector_string,        \* parse: the argument of the vector parsers
    parsed,               \* parse: what the parser returned or raised
    cvss_data,            \* block: the score block handed to the decoder and the resolver
    decoded,              \* block: what extract_metrics returned or raised
    severity,             \* block: the label extract_severity_from_cvss returned
    impact_value,         \* normalize: the argument of normalize_impact
    normalized,           \* normalize: what normalize_impact returned
    json_file_paths,      \* aggregation: number of files find_json_files returned
    file_index,           \* aggregation: files the for loop has taken so far
    data,                 \* aggregation: the document of the last iteration
    total_files,
    files_with_metrics,
    files_processed,
    cvss_v2_files,
    cvss_v3_files,
    frequency_counter,
    frequency_counter_v2,
    cwe_counter,
    location_counter,
    files_with_cwe,
    cwe_ids,              \* what extract_cwe_ids_from_data returned for the document
    trace,                \* history: blocks reached and error raised in the last iteration
    visits,               \* history: how often the loop has taken each file
    docs_failed,          \* history: iterations that ended in the except clause
    docs_with_blocks      \* history: documents taken that hold a score block

vars == <<script, pc, vector_string, parsed, cvss_data, decoded, severity, impact_value,
          normalized, json_file_paths,
          file_index, data, total_files, files_with_metrics, files_processed,
          cvss_v2_files, cvss_v3_files, frequency_counter, frequency_counter_v2,
          cwe_counter, location_counter, files_with_cwe, cwe_ids, trace, visits,
          docs_failed, docs_with_blocks>>

-----------------------------------------------------------------------------
(* Python values *)

NA == "N/A"

EmptyDict == <<>>

Get(d, k, default) == IF k \in DOMAIN d THEN d[k] ELSE default

Return(v) == [exc |-> "", val |-> v]

Raise(e) == [exc |-> e, val |-> EmptyDict]

-----------------------------------------------------------------------------
(* Text as token sequences *)

Delimiters == {"/", ":"}

Contains(s, c) == \E i \in 1..Len(s) : s[i] = c

\* str.split(sep): the pieces between the occurrences of sep, empty pieces kept
RECURSIVE split(_, _)
split(s, sep) ==
    IF Contains(s, sep)
    THEN LET i == CHOOSE i \in 1..Len(s) :
                      s[i] = sep /\ \A j \in 1..(i - 1) : s[j] # sep
         IN  <<SubSeq(s, 1, i - 1)>> \o split(SubSeq(s, i + 1, Len(s)), sep)
    ELSE <<s>>

\* The text of a piece that holds no delimiter: "" or its single run of characters
Str(piece) == IF piece = <<>> THEN "" ELSE piece[1]

\* A token sequence stands for a text iff no two runs of characters are adjacent
WellTokenized(s) ==
    \A i \in 1..(Len(s) - 1) : s[i] \in Delimiters \/ s[i + 1] \in Delimiters

-----------------------------------------------------------------------------
(* Vector Grammar Parser: cvss_metrics.py parse_vector_string, parse_vector_string_v2 *)

V3Dimensions == {"Confidentiality", "Integrity", "Availability", "Attack Vector",
                 "Attack Complexity", "Privileges Required", "User Interaction", "Scope"}

V2Dimensions == {"Confidentiality", "Integrity", "Availability", "Attack Vector",
                 "Attack Complexity", "Authentication"}

v3_initial_metrics == [k \in V3Dimensions \cup {"baseSeverity"} |-> NA]

v2_initial_metrics == [k \in V2Dimensions \cup {"baseSeverity"} |-> NA]

\* The if/elif chain of the v3 loop body with Attack Vector and Attack Complexity swapped
v3_assign_swapped(metrics, key, value) ==
    IF key = "C" THEN [metrics EXCEPT !["Confidentiality"] = value]
    ELSE IF key = "I" THEN [metrics EXCEPT !["Integrity"] = value]
    ELSE IF key = "A" THEN [metrics EXCEPT !["Availability"] = value]
    ELSE IF key = "AV" THEN [metrics EXCEPT !["Attack Complexity"] = value]
    ELSE IF key = "AC" THEN [metrics EXCEPT !["Attack Vector"] = value]
    ELSE IF key = "PR" THEN [metrics EXCEPT !["Privileges Required"] = value]
    ELSE IF key = "UI" THEN [metrics EXCEPT !["User Interaction"] = value]
    ELSE IF key = "S" THEN [metrics EXCEPT !["Scope"] = value]
    ELSE metrics

v3_assign(metrics, key, value) ==
    IF key = "C" THEN [metrics EXCEPT !["Confidentiality"] = value]
    ELSE IF key = "I" THEN [metrics EXCEPT !["Integrity"] = value]
    ELSE IF key = "A" THEN [metrics EXCEPT !["Availability"] = value]
    ELSE IF key = "AV" THEN [metrics EXCEPT !["Attack Vector"] = value]
    ELSE IF key = "AC" THEN [metrics EXCEPT !["Attack Complexity"] = value]
    ELSE IF key = "PR" THEN [metrics EXCEPT !["Privileges Required"] = value]
    ELSE IF key = "UI" THEN [metrics EXCEPT !["User Interaction"] = value]
    ELSE IF key = "S" THEN [metrics EXCEPT !["Scope"] = value]
    ELSE metrics

\* The if/elif chain of the v2 loop body keeping the first value a dimension was given
v2_assign_keep_first(metrics, key, value) ==
    IF key = "C" /\ metrics["Confidentiality"] = NA
    THEN [metrics EXCEPT !["Confidentiality"] = value]
    ELSE IF key = "I" /\ metrics["Integrity"] = NA
    THEN [metrics EXCEPT !["Integrity"] = value]
    ELSE IF key = "A" /\ metrics["Availability"] = NA
    THEN [metrics EXCEPT !["Availability"] = value]
    ELSE IF key = "AV" /\ metrics["Attack Vector"] = NA
    THEN [metrics EXCEPT !["Attack Vector"] = value]
    ELSE IF key = "AC" /\ metrics["Attack Complexity"] = NA
    THEN [metrics EXCEPT !["Attack Complexity"] = value]
    ELSE IF key = "Au" /\ metrics["Authentication"] = NA
    THEN [metrics EXCEPT !["Authentication"] = value]
    ELSE metrics

v2_assign(metrics, key, value) ==
    IF key = "C" THEN [metrics EXCEPT !["Confidentiality"] = value]
    ELSE IF key = "I" THEN [metrics EXCEPT !["Integrity"] = value]
    ELSE IF key = "A" THEN [metrics EXCEPT !["Availability"] = value]
    ELSE IF key = "AV" THEN [metrics EXCEPT !["Attack Vector"] = value]
    ELSE IF key = "AC" THEN [metrics EXCEPT !["Attack Complexity"] = value]
    ELSE IF key = "Au" THEN [metrics EXCEPT !["Authentication"] = value]
    ELSE metrics

\* for part in vector_parts: ... ; "key, value = part.split(':')" raises ValueError
\* unless the split yields exactly two pieces
RECURSIVE v3_loop(_, _)
v3_loop(metrics, vector_parts) ==
    IF vector_parts = <<>> THEN Return(metrics)
    ELSE LET part == Head(vector_parts) IN
         IF Contains(part, ":")
         THEN LET kv == split(part, ":") IN
              IF Len(kv) # 2 THEN Raise("ValueError")
              ELSE v3_loop(v3_assign(metrics, Str(kv[1]), Str(kv[2])), Tail(vector_parts))
         ELSE v3_loop(metrics, Tail(vector_parts))

RECURSIVE v2_loop(_, _)
v2_loop(metrics, vector_parts) ==
    IF vector_parts = <<>> THEN Return(metrics)
    ELSE LET part == Head(vector_parts) IN
         IF Contains(part, ":")
         THEN LET kv == split(part, ":") IN
              IF Len(kv) # 2 THEN Raise("ValueError")
              ELSE v2_loop(v2_assign(metrics, Str(kv[1]), Str(kv[2])), Tail(vector_parts))
         ELSE v2_loop(metrics, Tail(vector_parts))

parse_vector_string(vs) ==
    IF vs = <<>> THEN Return(v3_initial_metrics)
    ELSE v3_loop(v3_initial_metrics, split(vs, "/"))

parse_vector_string_v2(vs) ==
    IF vs = <<>> THEN Return(v2_initial_metrics)
    ELSE v2_loop(v2_initial_metrics, split(vs, "/"))

-----------------------------------------------------------------------------
(* Field Decoder: cvss_metrics.py extract_metrics *)

\* The direct fields of a v3 object, each defaulting to 'N/A'
v3_fields(cvss) ==
    [k \in V3Dimensions \cup {"baseSeverity"} |->
        CASE k = "Confidentiality" -> Get(cvss, "confidentialityImpact", NA)
          [] k = "Integrity" -> Get(cvss, "integrityImpact", NA)
          [] k = "Availability" -> Get(cvss, "availabilityImpact", NA)
          [] k = "Attack Vector" -> Get(cvss, "attackVector", NA)
          [] k = "Attack Complexity" -> Get(cvss, "attackComplexity", NA)
          [] k = "Privileges Required" -> Get(cvss, "privilegesRequired", NA)
          [] k = "User Interaction" -> Get(cvss, "userInteraction", NA)
          [] k = "Scope" -> Get(cvss, "scope", NA)
          [] k = "baseSeverity" -> Get(cvss, "baseSeverity", NA)]

\* The direct fields of a v2 object; baseSeverity is the literal 'N/A'
v2_fields(cvss) ==
    [k \in V2Dimensions \cup {"baseSeverity"} |->
        CASE k = "Confidentiality" -> Get(cvss, "confidentialityImpact", NA)
          [] k = "Integrity" -> Get(cvss, "integrityImpact", NA)
          [] k = "Availability" -> Get(cvss, "availabilityImpact", NA)
          [] k = "Attack Vector" -> Get(cvss, "accessVector", NA)
          [] k = "Attack Complexity" -> Get(cvss, "accessComplexity", NA)
          [] k = "Authentication" -> Get(cvss, "authentication", NA)
          [] k = "baseSeverity" -> NA]

\* extract_metrics testing the version keys in the order cvssV2_0, cvssV3_1, cvssV3_0
extract_metrics_v2_first(block) ==
    IF "cvssV2_0" \in DOMAIN block THEN
        LET cvss == block["cvssV2_0"]
            vs == Get(cvss, "vectorString", <<>>)
        IN  IF vs # <<>> THEN parse_vector_string_v2(vs) ELSE Return(v2_fields(cvss))
    ELSE IF "cvssV3_1" \in DOMAIN block THEN
        LET cvss == block["cvssV3_1"]
            vs == Get(cvss, "vectorString", <<>>)
        IN  IF vs # <<>> THEN parse_vector_string(vs) ELSE Return(v3_fields(cvss))
    ELSE IF "cvssV3_0" \in DOMAIN block THEN
        LET cvss == block["cvssV3_0"]
            vs == Get(cvss, "vectorString", <<>>)
        IN  IF vs # <<>> THEN parse_vector_string(vs) ELSE Return(v3_fields(cvss))
    ELSE Return(EmptyDict)

\* What the vector parser returned, its 'N/A' entries filled from the direct fields
filled_from_fields(result, fields) ==
    IF result.exc # "" THEN result
    ELSE Return([k \in DOMAIN result.val |->
                    IF result.val[k] = NA THEN fields[k] ELSE result.val[k]])

\* extract_metrics reading the direct fields for the dimensions the vector lacks
extract_metrics_merging(block) ==
    IF "cvssV3_1" \in DOMAIN block THEN
        LET cvss == block["cvssV3_1"]
            vs == Get(cvss, "vectorString", <<>>)
        IN  IF vs # <<>> THEN filled_from_fields(parse_vector_string(vs), v3_fields(cvss))
            ELSE Return(v3_fields(cvss))
    ELSE IF "cvssV3_0" \in DOMAIN block THEN
        LET cvss == block["cvssV3_0"]
            vs == Get(cvss, "vectorString", <<>>)
        IN  IF vs # <<>> THEN filled_from_fields(parse_vector_string(vs), v3_fields(cvss))
            ELSE Return(v3_fields(cvss))
    ELSE IF "cvssV2_0" \in DOMAIN block THEN
        LET cvss == block["cvssV2_0"]
            vs == Get(cvss, "vectorString", <<>>)
        IN  IF vs # <<>> THEN filled_from_fields(parse_vector_string_v2(vs), v2_fields(cvss))
            ELSE Return(v2_fields(cvss))
    ELSE Return(EmptyDict)

extract_metrics(block) ==
    IF "cvssV3_1" \in DOMAIN block THEN
        LET cvss == block["cvssV3_1"]
            vs == Get(cvss, "vectorString", <<>>)
        IN  IF vs # <<>> THEN parse_vector_string(vs) ELSE Return(v3_fields(cvss))
    ELSE IF "cvssV3_0" \in DOMAIN block THEN
        LET cvss == block["cvssV3_0"]
            vs == Get(cvss, "vectorString", <<>>)
        IN  IF vs # <<>> THEN parse_vector_string(vs) ELSE Return(v3_fields(cvss))
    ELSE IF "cvssV2_0" \in DOMAIN block THEN
        LET cvss == block["cvssV2_0"]
            vs == Get(cvss, "vectorString", <<>>)
        IN  IF vs # <<>> THEN parse_vector_string_v2(vs) ELSE Return(v2_fields(cvss))
    ELSE Return(EmptyDict)

-----------------------------------------------------------------------------
(* Severity Resolver: cvss_metrics.py calculate_severity_from_score,          *)
(* extract_severity_from_cvss                                                  *)

\* calculate_severity_from_score with strict comparisons
calculate_severity_strict(base_score, cvss_version) ==
    IF cvss_version = "v3" THEN
        IF base_score > 90 THEN "Critical"
        ELSE IF base_score > 70 THEN "High"
        ELSE IF base_score > 40 THEN "Medium"
        ELSE IF base_score > 1 THEN "Low"
        ELSE NA
    ELSE
        IF base_score > 70 THEN "High"
        ELSE IF base_score > 40 THEN "Medium"
        ELSE IF base_score > 1 THEN "Low"
        ELSE NA

calculate_severity_from_score(base_score, cvss_version) ==
    IF cvss_version = "v3" THEN
        IF base_score >= 90 THEN "Critical"
        ELSE IF base_score >= 70 THEN "High"
        ELSE IF base_score >= 40 THEN "Medium"
        ELSE IF base_score >= 1 THEN "Low"
        ELSE NA
    ELSE
        IF base_score >= 70 THEN "High"
        ELSE IF base_score >= 40 THEN "Medium"
        ELSE IF base_score >= 1 THEN "Low"
        ELSE NA

\* The v3 branch of extract_severity_from_cvss reading the score before the label
v3_severity_score_first(cvss) ==
    IF "baseScore" \in DOMAIN cvss
    THEN calculate_severity_from_score(cvss["baseScore"], "v3")
    ELSE LET base_severity == Get(cvss, "baseSeverity", "") IN
         IF base_severity = "CRITICAL" THEN "Critical"
         ELSE IF base_severity = "HIGH" THEN "High"
         ELSE IF base_severity = "MEDIUM" THEN "Medium"
         ELSE IF base_severity = "LOW" THEN "Low"
         ELSE NA

\* The body shared by the cvssV3_1 and cvssV3_0 branches: an absent label reads as
\* None and an empty one as '', both false in "if base_severity:"
v3_severity(cvss) ==
    LET base_severity == Get(cvss, "baseSeverity", "") IN
    IF base_severity # "" THEN
        IF base_severity = "CRITICAL" THEN "Critical"
        ELSE IF base_severity = "HIGH" THEN "High"
        ELSE IF base_severity = "MEDIUM" THEN "Medium"
        ELSE IF base_severity = "LOW" THEN "Low"
        ELSE NA
    ELSE IF "baseScore" \in DOMAIN cvss
         THEN calculate_severity_from_score(cvss["baseScore"], "v3")
         ELSE NA

v2_severity(cvss) ==
    IF "baseScore" \in DOMAIN cvss
    THEN calculate_severity_from_score(cvss["baseScore"], "v2")
    ELSE NA

extract_severity_from_cvss(block) ==
    IF "cvssV3_1" \in DOMAIN block THEN v3_severity(block["cvssV3_1"])
    ELSE IF "cvssV3_0" \in DOMAIN block THEN v3_severity(block["cvssV3_0"])
    ELSE IF "cvssV2_0" \in DOMAIN block THEN v2_severity(block["cvssV2_0"])
    ELSE NA

-----------------------------------------------------------------------------
(* Impact normalisation: cvss_metric_plot.py normalize_impact.  Its argument is any   *)
(* Python value: None, a text, a number.                                              *)

None == [type |-> "NoneType", text |-> <<>>]

PyStr(chars) == [type |-> "str", text |-> chars]

PyInt(digits) == [type |-> "int", text |-> digits]

\* A JSON array as a value: str() prints it, and it cannot be a dictionary key
PyList(printed) == [type |-> "list", text |-> printed]

\* str(value): a text is itself, a number its decimal digits
str(value) == IF value.type = "NoneType" THEN <<"N", "o", "n", "e">> ELSE value.text

UpperOf ==
    ("a" :> "A") @@ ("d" :> "D") @@ ("e" :> "E") @@ ("g" :> "G") @@ ("h" :> "H")
    @@ ("i" :> "I") @@ ("l" :> "L") @@ ("m" :> "M") @@ ("n" :> "N") @@ ("o" :> "O")
    @@ ("p" :> "P") @@ ("r" :> "R") @@ ("t" :> "T") @@ ("u" :> "U") @@ ("w" :> "W")

\* str.upper(): lower-case letters become upper-case, every other character stays
upper(chars) ==
    [i \in 1..Len(chars) |-> IF chars[i] \in DOMAIN UpperOf THEN UpperOf[chars[i]] ELSE chars[i]]

\* normalize_impact falling back to 'N' for the values it does not recognise
normalize_impact_fallback_N(value) ==
    IF value.type = "NoneType" THEN PyStr(<<"N", "/", "A">>)
    ELSE LET v == upper(str(value)) IN
         IF v \in {<<"H">>, <<"H", "I", "G", "H">>} THEN PyStr(<<"H", "I", "G", "H">>)
         ELSE IF v \in {<<"L">>, <<"L", "O", "W">>} THEN PyStr(<<"L", "O", "W">>)
         ELSE IF v \in {<<"N">>, <<"N", "O", "N", "E">>} THEN PyStr(<<"N", "O", "N", "E">>)
         ELSE IF v \in {<<"M">>, <<"M", "E", "D", "I", "U", "M">>}
              THEN PyStr(<<"M", "E", "D", "I", "U", "M">>)
         ELSE PyStr(<<"N">>)

normalize_impact(value) ==
    IF value.type = "NoneType" THEN PyStr(<<"N", "/", "A">>)
    ELSE LET v == upper(str(value)) IN
         IF v \in {<<"H">>, <<"H", "I", "G", "H">>} THEN PyStr(<<"H", "I", "G", "H">>)
         ELSE IF v \in {<<"L">>, <<"L", "O", "W">>} THEN PyStr(<<"L", "O", "W">>)
         ELSE IF v \in {<<"N">>, <<"N", "O", "N", "E">>} THEN PyStr(<<"N", "O", "N", "E">>)
         ELSE IF v \in {<<"M">>, <<"M", "E", "D", "I", "U", "M">>}
              THEN PyStr(<<"M", "E", "D", "I", "U", "M">>)
         ELSE PyStr(<<"N", "/", "A">>)

\* The field value ["HIGH"] of a document, named by the text Python prints for it
ListHigh == "['HIGH']"

\* The values hash() raises TypeError for
Unhashable == {ListHigh}

\* The characters of the texts that occur as impact values in the documents
ImpactText ==
    (ListHigh :> <<"[", "'", "H", "I", "G", "H", "'", "]">>) @@
    ("H" :> <<"H">>) @@ ("L" :> <<"L">>) @@ ("N" :> <<"N">>) @@ ("P" :> <<"P">>)
    @@ ("" :> <<>>) @@ ("HIGH" :> <<"H", "I", "G", "H">>) @@ ("LOW" :> <<"L", "O", "W">>)
    @@ ("low" :> <<"l", "o", "w">>) @@ ("NONE" :> <<"N", "O", "N", "E">>)
    @@ ("MEDIUM" :> <<"M", "E", "D", "I", "U", "M">>)
    @@ ("PARTIAL" :> <<"P", "A", "R", "T", "I", "A", "L">>) @@ ("N/A" :> <<"N", "/", "A">>)

\* value = normalize_impact(value) on a metric value of the loop
normalized_value(value) ==
    LET result == normalize_impact(IF value \in Unhashable THEN PyList(ImpactText[value])
                                   ELSE PyStr(ImpactText[value])) IN
    CHOOSE t \in DOMAIN ImpactText : ImpactText[t] = result.text

\* if key in ['Confidentiality', 'Integrity', 'Availability']: value = normalize_impact(value)
normalized_metrics(m) ==
    [k \in DOMAIN m |->
        IF k \in {"Confidentiality", "Integrity", "Availability"}
        THEN normalized_value(m[k]) ELSE m[k]]

-----------------------------------------------------------------------------
(* Aggregator: one iteration of the for loop of cvss_metrics.py process_json_files.  *)
(* An iteration works on a record of the values it reads and writes:                 *)
(*   fc, auth       frequency_counter and frequency_counter_v2['Authentication']     *)
(*   v2, v3         cvss_v2_files, cvss_v3_files                                     *)
(*   has_metrics    the local flag                                                   *)
(*   normalize      whether the loop is that of cvss_metric_plot.py, which           *)
(*                  normalises the impact values before counting them                *)
(*   exc            the exception raised so far ("" for none); once set, the rest    *)
(*                  of the try block is skipped                                      *)
(*   taken          history: the blocks the loops have reached, with their source    *)

CounterKeys == V3Dimensions \cup {"baseSeverity", "SeverityLevel"}

\* counter[value] = 1 in place of counter[value] += 1
Inc_to_one(counter, value) ==
    IF BagIn(value, counter) THEN counter ELSE counter (+) SetToBag({value})

Inc(counter, value) == counter (+) SetToBag({value})

Count(counter, value) == CopiesIn(value, counter)

Total(counter) == BagCardinality(counter)

Taken(S, source, section, block) ==
    [S EXCEPT !.taken = Append(@, [source |-> source, section |-> section, block |-> block])]

\* The order in which metrics.items() yields the keys of a decoder's dict
ItemsOrder ==
    <<"Confidentiality", "Integrity", "Availability", "Attack Vector", "Attack Complexity",
      "Privileges Required", "User Interaction", "Scope", "Authentication", "baseSeverity">>

\* The first of the keys in the order of the dict
FirstItem(keys) ==
    ItemsOrder[CHOOSE i \in 1..Len(ItemsOrder) :
                  ItemsOrder[i] \in keys /\ \A j \in 1..(i - 1) : ItemsOrder[j] \notin keys]

\* The counter update leaving out the dimensions whose value is 'N/A'
RECURSIVE update_counters_determined(_, _, _)
update_counters_determined(fc, m, keys) ==
    IF keys = {} THEN Return(fc)
    ELSE LET key == FirstItem(keys) IN
         IF key \in DOMAIN fc /\ m[key] \in Unhashable THEN [val |-> fc, exc |-> "TypeError"]
         ELSE update_counters_determined(IF key \in DOMAIN fc /\ m[key] # NA
                                         THEN [fc EXCEPT ![key] = Inc(@, m[key])]
                                         ELSE fc,
                                         m, keys \ {key})

\* for key, value in metrics.items(): if key in frequency_counter: ... += 1
\* The increments made before a value that cannot be hashed stay in the counters.
RECURSIVE update_counters(_, _, _)
update_counters(fc, m, keys) ==
    IF keys = {} THEN Return(fc)
    ELSE LET key == FirstItem(keys) IN
         IF key \in DOMAIN fc /\ m[key] \in Unhashable THEN [val |-> fc, exc |-> "TypeError"]
         ELSE update_counters(IF key \in DOMAIN fc
                              THEN [fc EXCEPT ![key] = Inc(@, m[key])]
                              ELSE fc,
                              m, keys \ {key})

\* The body of "for cvss_data in cna_metrics" (and of the same loop over adp_metrics)
process_block(S, block, source, section) ==
    IF S.exc # "" THEN S
    ELSE LET S0 == Taken(S, source, section, block)
             m == extract_metrics(block)
         IN
         IF m.exc # "" THEN [S0 EXCEPT !.exc = m.exc]
         ELSE IF m.val = EmptyDict THEN S0
         ELSE LET severity_level == extract_severity_from_cvss(block)
                  S1 == IF severity_level # NA
                        THEN [S0 EXCEPT !.fc["SeverityLevel"] = Inc(@, severity_level)]
                        ELSE S0
                  S2 == IF "cvssV2_0" \in DOMAIN block
                        THEN IF "Authentication" \notin DOMAIN m.val
                             THEN [S1 EXCEPT !.v2 = @ + 1]
                             ELSE IF m.val["Authentication"] \in Unhashable
                             THEN [S1 EXCEPT !.v2 = @ + 1, !.exc = "TypeError"]
                             ELSE [S1 EXCEPT !.v2 = @ + 1,
                                             !.auth = Inc(@, m.val["Authentication"])]
                        ELSE IF "cvssV3_0" \in DOMAIN block \/ "cvssV3_1" \in DOMAIN block
                        THEN [S1 EXCEPT !.v3 = @ + 1]
                        ELSE S1
                  counted == IF S.normalize
                             THEN update_counters(S2.fc, normalized_metrics(m.val), DOMAIN m.val)
                             ELSE update_counters(S2.fc, m.val, DOMAIN m.val)
              IN  IF S2.exc # "" THEN S2
                  ELSE [S2 EXCEPT !.fc = counted.val, !.exc = counted.exc]

\* The loop over a metrics list leaving at the first block of no known version
RECURSIVE process_blocks_stop_at_unknown(_, _, _, _)
process_blocks_stop_at_unknown(S, blocks, source, section) ==
    IF blocks = <<>> THEN S
    ELSE IF DOMAIN Head(blocks) \cap {"cvssV3_1", "cvssV3_0", "cvssV2_0"} = {}
    THEN Taken(S, source, section, Head(blocks))
    ELSE process_blocks_stop_at_unknown(process_block(S, Head(blocks), source, section),
                                        Tail(blocks), source, section)

RECURSIVE process_blocks(_, _, _, _)
process_blocks(S, blocks, source, section) ==
    IF blocks = <<>> THEN S
    ELSE process_blocks(process_block(S, Head(blocks), source, section),
                        Tail(blocks), source, section)

\* cna_metrics = data.get('containers', {}).get('cna', {}).get('metrics', [])
cna_metrics_of(obj) ==
    Get(Get(Get(obj, "containers", EmptyDict), "cna", EmptyDict), "metrics", <<>>)

adp_list_of(obj) == Get(Get(obj, "containers", EmptyDict), "adp", <<>>)

\* The cna pass without its "if cna_metrics:" guard
process_cna_unguarded(S, obj) ==
    process_blocks([S EXCEPT !.has_metrics = TRUE], cna_metrics_of(obj), "primary", 0)

\* First check for metrics in cna
process_cna(S, obj) ==
    LET cna_metrics == cna_metrics_of(obj) IN
    IF cna_metrics # <<>>
    THEN process_blocks([S EXCEPT !.has_metrics = TRUE], cna_metrics, "primary", 0)
    ELSE S

\* for adp in adp_list: the guard "if not has_metrics" is outside this loop
RECURSIVE process_adp_list(_, _, _)
process_adp_list(S, adp_list, j) ==
    IF j > Len(adp_list) \/ S.exc # "" THEN S
    ELSE LET adp_metrics == Get(adp_list[j], "metrics", <<>>) IN
         process_adp_list(
             IF adp_metrics # <<>>
             THEN process_blocks([S EXCEPT !.has_metrics = TRUE], adp_metrics, "secondary", j)
             ELSE S,
             adp_list, j + 1)

\* The adp pass stopping at the first section that holds metrics
process_adp_first_section(S, obj) ==
    IF S.exc # "" \/ S.has_metrics THEN S
    ELSE LET adp_list == adp_list_of(obj)
             found == {j \in 1..Len(adp_list) : Get(adp_list[j], "metrics", <<>>) # <<>>}
         IN  IF found = {} THEN S
             ELSE LET j == CHOOSE x \in found : \A y \in found : x <= y IN
                  process_blocks([S EXCEPT !.has_metrics = TRUE],
                                 adp_list[j]["metrics"], "secondary", j)

\* The adp pass entered whatever the cna pass found
process_adp_unguarded(S, obj) ==
    IF S.exc # "" THEN S ELSE process_adp_list(S, adp_list_of(obj), 1)

\* Then check for metrics in adp (if not found in cna)
process_adp(S, obj) ==
    IF S.exc # "" \/ S.has_metrics THEN S
    ELSE process_adp_list(S, adp_list_of(obj), 1)

NoImpact == [kind |-> "object", obj |-> EmptyDict]

\* The counting of one legacy sub-block (the cvssV3 branch and the cvssV2 branch)
legacy_block(S, cvss, version) ==
    LET S0 == Taken([S EXCEPT !.has_metrics = TRUE], "legacy", 0, cvss)
        S1 == IF version = "v3" THEN [S0 EXCEPT !.v3 = @ + 1] ELSE [S0 EXCEPT !.v2 = @ + 1]
    IN  IF "baseScore" \in DOMAIN cvss
        THEN LET sev == calculate_severity_from_score(cvss["baseScore"], version)
                 S2 == [S1 EXCEPT !.fc["SeverityLevel"] = Inc(@, sev)]
             IN  IF sev = "Critical" /\ version = "v3"
                 THEN [S2 EXCEPT !.fc["baseSeverity"] = Inc(@, "CRITICAL")]
                 ELSE IF sev = "High" THEN [S2 EXCEPT !.fc["baseSeverity"] = Inc(@, "HIGH")]
                 ELSE IF sev = "Medium" THEN [S2 EXCEPT !.fc["baseSeverity"] = Inc(@, "MEDIUM")]
                 ELSE IF sev = "Low" THEN [S2 EXCEPT !.fc["baseSeverity"] = Inc(@, "LOW")]
                 ELSE S2
        ELSE S1

\* If no CVE 5.0 format metrics found, try legacy format
process_legacy(S, obj) ==
    IF S.exc # "" \/ S.has_metrics THEN S
    ELSE LET impact_data == Get(obj, "impact", NoImpact) IN
         IF impact_data.kind # "object" THEN S
         ELSE LET cvss_v3 == Get(Get(impact_data.obj, "baseMetricV3", EmptyDict),
                                 "cvssV3", EmptyDict)
              IN
              IF cvss_v3 # EmptyDict THEN legacy_block(S, cvss_v3, "v3")
              ELSE LET cvss_v2 == Get(Get(impact_data.obj, "baseMetricV2", EmptyDict),
                                      "cvssV2", EmptyDict)
                   IN  IF cvss_v2 # EmptyDict THEN legacy_block(S, cvss_v2, "v2") ELSE S

\* json.load, then the first data.get: a file that is no JSON raises JSONDecodeError,
\* a document whose top level is no object raises AttributeError
load(S, doc) ==
    IF doc.kind = "invalid" THEN [S EXCEPT !.exc = "JSONDecodeError"]
    ELSE IF doc.kind # "object" THEN [S EXCEPT !.exc = "AttributeError"]
    ELSE S

\* The try block up to "if has_metrics"
process_document(S, doc) ==
    LET S0 == load([S EXCEPT !.has_metrics = FALSE, !.exc = "", !.taken = <<>>], doc) IN
    IF S0.exc # "" THEN S0
    ELSE process_legacy(process_adp(process_cna(S0, doc.obj), doc.obj), doc.obj)

\* An except clause that names json.JSONDecodeError alone
CaughtDecodeErrorOnly(exc) == exc = "JSONDecodeError"

\* except Exception as e: every exception the try block raises is caught
Caught(exc) == TRUE

-----------------------------------------------------------------------------
(* Weakness aggregation: one iteration of the for loop of cwe_stats.py               *)
(* process_json_files_for_cwe.  A weakness identifier is the sequence of its         *)
(* tokens, the prefix "CWE-" being one token: "CWE-79" is <<"CWE-", "79">>.          *)

NoCweId == <<>>

startswith_CWE(cwe_id) == Len(cwe_id) >= 1 /\ cwe_id[1] = "CWE-"

\* The counting of an identifier as it is written, no prefix added
standardize_unprefixed(cwe_id) == cwe_id

\* Standardize CWE format
standardize(cwe_id) == IF startswith_CWE(cwe_id) THEN cwe_id ELSE <<"CWE-">> \o cwe_id

\* The descriptions loop counting an identifier once, however often it is cited
RECURSIVE count_descriptions_once(_, _, _)
count_descriptions_once(W, descriptions, place) ==
    IF descriptions = <<>> THEN W
    ELSE LET cwe_id == Get(Head(descriptions), "cweId", NoCweId)
             W1 == IF cwe_id # NoCweId
                   THEN [W EXCEPT !.has_cwe = TRUE,
                                  !.found_in_cna = @ \/ place = "cna",
                                  !.found_in_adp = @ \/ place = "adp",
                                  !.counter = IF BagIn(standardize(cwe_id), @) THEN @
                                              ELSE Inc(@, standardize(cwe_id))]
                   ELSE W
         IN  count_descriptions_once(W1, Tail(descriptions), place)

\* The descriptions loop setting has_cwe for the cna container only
RECURSIVE count_descriptions_cna_flag(_, _, _)
count_descriptions_cna_flag(W, descriptions, place) ==
    IF descriptions = <<>> THEN W
    ELSE LET cwe_id == Get(Head(descriptions), "cweId", NoCweId)
             W1 == IF cwe_id # NoCweId
                   THEN [W EXCEPT !.has_cwe = @ \/ place = "cna",
                                  !.found_in_cna = @ \/ place = "cna",
                                  !.found_in_adp = @ \/ place = "adp",
                                  !.counter = Inc(@, standardize(cwe_id))]
                   ELSE W
         IN  count_descriptions_cna_flag(W1, Tail(descriptions), place)

\* for desc in descriptions: an absent cweId reads as None, false like the empty text
RECURSIVE count_descriptions(_, _, _)
count_descriptions(W, descriptions, place) ==
    IF descriptions = <<>> THEN W
    ELSE LET cwe_id == Get(Head(descriptions), "cweId", NoCweId)
             W1 == IF cwe_id # NoCweId
                   THEN [W EXCEPT !.has_cwe = TRUE,
                                  !.found_in_cna = @ \/ place = "cna",
                                  !.found_in_adp = @ \/ place = "adp",
                                  !.counter = Inc(@, standardize(cwe_id))]
                   ELSE W
         IN  count_descriptions(W1, Tail(descriptions), place)

RECURSIVE count_problem_types(_, _, _)
count_problem_types(W, problem_types, place) ==
    IF problem_types = <<>> THEN W
    ELSE count_problem_types(
             count_descriptions(W, Get(Head(problem_types), "descriptions", <<>>), place),
             Tail(problem_types), place)

RECURSIVE count_adp_containers(_, _)
count_adp_containers(W, adp_containers) ==
    IF adp_containers = <<>> THEN W
    ELSE count_adp_containers(
             count_problem_types(W, Get(Head(adp_containers), "problemTypes", <<>>), "adp"),
             Tail(adp_containers))

\* The try block with the adp containers read only when the cna container gave nothing
count_document_short_circuit(W, doc) ==
    LET W0 == load([W EXCEPT !.has_cwe = FALSE, !.found_in_cna = FALSE,
                             !.found_in_adp = FALSE, !.exc = ""], doc)
    IN
    IF W0.exc # "" THEN W0
    ELSE LET cna_container == Get(Get(doc.obj, "containers", EmptyDict), "cna", EmptyDict)
             W1 == IF cna_container # EmptyDict
                   THEN count_problem_types(W0, Get(cna_container, "problemTypes", <<>>), "cna")
                   ELSE W0
         IN  IF W1.has_cwe THEN W1 ELSE count_adp_containers(W1, adp_list_of(doc.obj))

\* The try block of process_json_files_for_cwe up to "if has_cwe"
count_document(W, doc) ==
    LET W0 == load([W EXCEPT !.has_cwe = FALSE, !.found_in_cna = FALSE,
                             !.found_in_adp = FALSE, !.exc = ""], doc)
    IN
    IF W0.exc # "" THEN W0
    ELSE LET cna_container == Get(Get(doc.obj, "containers", EmptyDict), "cna", EmptyDict)
             W1 == IF cna_container # EmptyDict
                   THEN count_problem_types(W0, Get(cna_container, "problemTypes", <<>>), "cna")
                   ELSE W0
         IN  count_adp_containers(W1, adp_list_of(doc.obj))

\* The three loops of extract_cwe_ids_from_data, adding to the set cwe_ids
RECURSIVE add_descriptions(_, _)
add_descriptions(ids, descriptions) ==
    IF descriptions = <<>> THEN ids
    ELSE LET cwe_id == Get(Head(descriptions), "cweId", NoCweId) IN
         add_descriptions(IF cwe_id # NoCweId THEN ids \cup {standardize(cwe_id)} ELSE ids,
                          Tail(descriptions))

RECURSIVE add_problem_types(_, _)
add_problem_types(ids, problem_types) ==
    IF problem_types = <<>> THEN ids
    ELSE add_problem_types(
             add_descriptions(ids, Get(Head(problem_types), "descriptions", <<>>)),
             Tail(problem_types))

RECURSIVE add_adp_containers(_, _)
add_adp_containers(ids, adp_containers) ==
    IF adp_containers = <<>> THEN ids
    ELSE add_adp_containers(
             add_problem_types(ids, Get(Head(adp_containers), "problemTypes", <<>>)),
             Tail(adp_containers))

\* return list(cwe_ids): every element of the set once, in no particular order
list(ids) == SetToBag(ids)

\* Called on a document that is no object, the first data.get raises AttributeError
extract_cwe_ids_from_data(doc) ==
    IF doc.kind # "object" THEN Raise("AttributeError")
    ELSE LET cna_container == Get(Get(doc.obj, "containers", EmptyDict), "cna", EmptyDict)
             in_cna == IF cna_container # EmptyDict
                       THEN add_problem_types({}, Get(cna_container, "problemTypes", <<>>))
                       ELSE {}
         IN  Return(list(add_adp_containers(in_cna, adp_list_of(doc.obj))))

\* Track location
location_of(W) ==
    IF W.found_in_cna /\ W.found_in_adp THEN "Both"
    ELSE IF W.found_in_cna THEN "cna only"
    ELSE "adp only"

\* The end of the try block with files_processed counted for failed documents too
after_try_counting_failed(S, counts) ==
    [with_metrics |-> counts.with_metrics + (IF S.exc = "" /\ S.has_metrics THEN 1 ELSE 0),
     processed |-> counts.processed + 1]

\* if has_metrics: files_with_metrics += 1; files_processed += 1 -- both skipped when
\* the try block raised
after_try(S, counts) ==
    IF S.exc # "" THEN counts
    ELSE [with_metrics |-> counts.with_metrics + (IF S.has_metrics THEN 1 ELSE 0),
          processed |-> counts.processed + 1]

\* Merge v2 specific metrics into main counter
merge_authentication(fc, auth) ==
    IF auth # EmptyBag THEN ("Authentication" :> auth) @@ fc ELSE fc

-----------------------------------------------------------------------------
(* Inputs *)

MaxTokens == 4

MaxSegments == 3

MaxBaseScore == 100

MaxBlocks == 2

MaxSections == 2

MaxFiles == 3

SeqsUpTo(S, n) == UNION {[1..k -> S] : k \in 0..n}

RECURSIVE Join(_)
Join(segments) ==
    IF segments = <<>> THEN <<>>
    ELSE IF Len(segments) = 1 THEN segments[1]
    ELSE segments[1] \o <<"/">> \o Join(Tail(segments))

Seg(key, value) == <<key, ":", value>>

\* "AV:N/AC:L/PR:N/UI:N/S:U/C:H/I:H/A:H"
ExampleV3 == Join(<<Seg("AV", "N"), Seg("AC", "L"), Seg("PR", "N"), Seg("UI", "N"),
                    Seg("S", "U"), Seg("C", "H"), Seg("I", "H"), Seg("A", "H")>>)

\* "AV:N/AC:L/Au:N/C:P/I:P/A:P"
ExampleV2 == Join(<<Seg("AV", "N"), Seg("AC", "L"), Seg("Au", "N"),
                    Seg("C", "P"), Seg("I", "P"), Seg("A", "P")>>)

\* "CVSS:3.1/AV:N:X": a segment with two colons
TwoColons == Join(<<Seg("CVSS", "3.1"), <<"AV", ":", "N", ":", "X">>>>)

SegmentPool ==
    {Seg("AV", "N"), Seg("AV", "L"), Seg("AC", "L"), Seg("PR", "N"), Seg("C", "H"),
     Seg("Au", "S"), Seg("CVSS", "3.1"), Seg("av", "N"), <<"AV">>, <<"C", ":">>, <<>>,
     <<"AV", ":", "N", ":", "X">>}

TokenAlphabet == {"/", ":", "AV", "Au", "N"}

VectorInputs ==
    {Join(ss) : ss \in SeqsUpTo(SegmentPool, MaxSegments)}
    \cup {s \in SeqsUpTo(TokenAlphabet, MaxTokens) : WellTokenized(s)}
    \cup {ExampleV3, ExampleV2, TwoColons}

MaxChars == 2

\* Every way of writing a word of upper-case letters in mixed case
CaseVariants(word) ==
    {[i \in 1..Len(word) |->
         IF i \in low /\ \E c \in DOMAIN UpperOf : UpperOf[c] = word[i]
         THEN CHOOSE c \in DOMAIN UpperOf : UpperOf[c] = word[i]
         ELSE word[i]] : low \in SUBSET (1..Len(word))}

ImpactWords ==
    {<<"H">>, <<"H", "I", "G", "H">>, <<"L">>, <<"L", "O", "W">>, <<"N">>,
     <<"N", "O", "N", "E">>, <<"M">>, <<"M", "E", "D", "I", "U", "M">>, <<"N", "/", "A">>}

ImpactValues ==
    {None, PyInt(<<"1">>), PyInt(<<"1", "0">>),
     PyStr(<<"P", "A", "R", "T", "I", "A", "L">>), PyStr(<<"p", "a", "r", "t", "i", "a", "l">>),
     PyStr(<<"H", "I", "G", "H", " ">>), PyStr(<<"N", "o", "n", "e", "!">>)}
    \cup {PyStr(t) : t \in UNION {CaseVariants(w) : w \in ImpactWords}}
    \cup {PyStr(t) : t \in SeqsUpTo({"H", "h", "n", "/", "1"}, MaxChars)}

VersionKeys == {"cvssV3_1", "cvssV3_0", "cvssV2_0"}

Labels == {"CRITICAL", "HIGH", "MEDIUM", "LOW", "NONE", "high", ""}

Scores == 0..MaxBaseScore

\* A set holding zero or one value as the dict with or without the key
Opt(key, values) == IF values = {} THEN EmptyDict ELSE key :> (CHOOSE v \in values : TRUE)

SeverityObjects ==
    {Opt("baseSeverity", l) @@ Opt("baseScore", sc) :
        l \in {{}} \cup {{x} : x \in Labels}, sc \in {{}} \cup {{x} : x \in Scores}}

ObjHighVector ==
    ("vectorString" :> ExampleV3) @@ ("baseSeverity" :> "HIGH") @@ ("baseScore" :> 98)

ObjFields ==
    ("confidentialityImpact" :> "HIGH") @@ ("integrityImpact" :> "low")
    @@ ("attackVector" :> "NETWORK") @@ ("scope" :> "UNCHANGED") @@ ("baseScore" :> 55)

ObjV2Vector == ("vectorString" :> ExampleV2) @@ ("baseScore" :> 98)

ObjV2Fields ==
    ("accessVector" :> "NETWORK") @@ ("authentication" :> "NONE")
    @@ ("confidentialityImpact" :> "PARTIAL") @@ ("baseSeverity" :> "LOW")

ObjTwoColons == ("vectorString" :> TwoColons) @@ ("baseScore" :> 75)

\* A vector that lacks most dimensions next to direct fields that give them
ObjVectorAndFields ==
    ("vectorString" :> Seg("AV", "N")) @@ ("confidentialityImpact" :> "HIGH")
    @@ ("attackVector" :> "LOCAL") @@ ("accessVector" :> "LOCAL") @@ ("baseScore" :> 40)

\* An empty vector next to a few direct fields
ObjEmptyVector ==
    ("vectorString" :> <<>>) @@ ("integrityImpact" :> "NONE")
    @@ ("accessComplexity" :> "LOW") @@ ("authentication" :> "SINGLE")

DecoderObjects ==
    {ObjHighVector, ObjFields, ObjV2Vector, ObjV2Fields, ObjTwoColons, ObjVectorAndFields,
     ObjEmptyVector}

BlockInputs ==
    {k :> o : k \in VersionKeys \cup {"cvssV4_0"}, o \in SeverityObjects \cup DecoderObjects}
    \cup {(k3 :> o3) @@ ("cvssV2_0" :> o2) :
            k3 \in {"cvssV3_1", "cvssV3_0"}, o3 \in DecoderObjects, o2 \in DecoderObjects}
    \cup {("cvssV3_1" :> o1) @@ ("cvssV3_0" :> o0) @@ Opt("cvssV2_0", o2) :
            o1 \in DecoderObjects, o0 \in DecoderObjects, o2 \in {{}, {ObjV2Vector}}}
    \cup {EmptyDict}

BlockV31 == "cvssV3_1" :> ObjHighVector

BlockV30 == "cvssV3_0" :> ObjFields

BlockV2 == "cvssV2_0" :> ObjV2Vector

BlockTwoColons == "cvssV3_1" :> ObjTwoColons

BlockUnknown == "cvssV4_0" :> ObjHighVector

BlockMixed == ("cvssV3_0" :> ObjFields) @@ ("cvssV2_0" :> ObjV2Fields)

\* A block whose confidentialityImpact is the JSON array ["HIGH"]
BlockList == "cvssV3_1" :> (("confidentialityImpact" :> ListHigh) @@ ("baseScore" :> 50))

CnaBlocks == {BlockV31, BlockV30, BlockV2, BlockTwoColons, BlockUnknown, BlockMixed}

AdpSectionInputs ==
    {EmptyDict, "metrics" :> <<BlockV2>>, "metrics" :> <<BlockV30>>,
     "metrics" :> <<BlockTwoColons>>}

LegacyV3Inputs ==
    {{}, {EmptyDict}, {"cvssV3" :> (("baseSeverity" :> "LOW") @@ ("baseScore" :> 98))},
     {"cvssV3" :> ("baseSeverity" :> "HIGH")}}

LegacyV2Inputs == {{}, {"cvssV2" :> ("baseScore" :> 98)}, {"cvssV2" :> ("baseScore" :> 0)}}

ImpactInputs ==
    {{}, {[kind |-> "string", obj |-> EmptyDict]}}
    \cup {{[kind |-> "object", obj |-> Opt("baseMetricV3", m3) @@ Opt("baseMetricV2", m2)]} :
            m3 \in LegacyV3Inputs, m2 \in LegacyV2Inputs}

Object(obj) == [kind |-> "object", obj |-> obj]

\* A document that is an object with neither a containers nor an impact key
DocNoKeys == Object(EmptyDict)

\* A document whose top level is a JSON array, and a file that is no JSON at all
DocArray == [kind |-> "array", obj |-> EmptyDict]

DocInvalid == [kind |-> "invalid", obj |-> EmptyDict]

MetricsDocuments ==
    {Object("containers" :> ("cna" :> ("metrics" :> l))) : l \in SeqsUpTo(CnaBlocks, MaxBlocks)}
    \cup {Object(("containers" :> (Opt("cna", c) @@ ("adp" :> a))) @@ Opt("impact", im)) :
            c \in {{}, {"metrics" :> <<>>}, {"metrics" :> <<BlockV31>>}},
            a \in SeqsUpTo(AdpSectionInputs, MaxSections),
            im \in ImpactInputs}
    \cup {Object(Opt("impact", im)) : im \in ImpactInputs}
    \cup {DocNoKeys, DocArray, DocInvalid}

CnaDoc(blocks) == Object("containers" :> ("cna" :> ("metrics" :> blocks)))

AdpDoc(sections) == Object("containers" :> ("adp" :> sections))

LegacyDoc(impact) == Object("impact" :> Object(impact))

\* primary, secondary and legacy blocks in one document
DocAllSources ==
    Object(("containers" :> (("cna" :> ("metrics" :> <<BlockV31>>))
                             @@ ("adp" :> <<"metrics" :> <<BlockV2>>>>)))
           @@ ("impact" :> Object("baseMetricV2" :> ("cvssV2" :> ("baseScore" :> 98)))))

\* The documents of a run over several files
BatchDocuments ==
    {DocNoKeys, DocArray, DocInvalid, DocAllSources,
     CnaDoc(<<BlockV31>>), CnaDoc(<<BlockV2>>), CnaDoc(<<BlockV30>>),
     CnaDoc(<<BlockV31, BlockV2>>), CnaDoc(<<BlockV31, BlockV31>>),
     CnaDoc(<<BlockTwoColons>>), CnaDoc(<<BlockV31, BlockTwoColons>>),
     CnaDoc(<<BlockUnknown>>), CnaDoc(<<BlockMixed>>), CnaDoc(<<BlockList>>),
     AdpDoc(<<"metrics" :> <<BlockV2>>>>),
     AdpDoc(<<"metrics" :> <<BlockV30>>, "metrics" :> <<BlockV2>>>>),
     AdpDoc(<<"metrics" :> <<BlockV30>>, "metrics" :> <<BlockTwoColons>>>>),
     LegacyDoc("baseMetricV3" :> ("cvssV3" :> (("baseSeverity" :> "LOW") @@ ("baseScore" :> 98)))),
     LegacyDoc("baseMetricV3" :> ("cvssV3" :> ("baseSeverity" :> "HIGH"))),
     LegacyDoc("baseMetricV3" :> ("cvssV3" :> ObjHighVector)),
     LegacyDoc("baseMetricV2" :> ("cvssV2" :> ("baseScore" :> 0))),
     Object("impact" :> [kind |-> "string", obj |-> EmptyDict])}

\* The documents of a run of cvss_metric_plot.py: those of the batch that differ in the
\* form of their impact values or in the place where processing ends
PlotBatchDocuments ==
    {DocNoKeys, DocInvalid,
     CnaDoc(<<BlockV31>>), CnaDoc(<<BlockV2>>), CnaDoc(<<BlockV30>>),
     CnaDoc(<<BlockV31, BlockTwoColons>>), CnaDoc(<<BlockMixed>>), CnaDoc(<<BlockList>>),
     AdpDoc(<<"metrics" :> <<BlockV30>>, "metrics" :> <<BlockV2>>>>),
     LegacyDoc("baseMetricV3" :> ("cvssV3" :> ObjHighVector))}

BatchDocumentsOf(name) ==
    IF name = "cvss_metric_plot" THEN PlotBatchDocuments ELSE BatchDocuments

Desc(cwe_id) == "cweId" :> cwe_id

DescriptionInputs ==
    {Desc(<<"79">>), Desc(<<"CWE-", "79">>), Desc(<<"CWE-", "89">>), Desc(NoCweId), EmptyDict}

ProblemTypes(descriptions) == <<"descriptions" :> descriptions>>

CweSectionInputs ==
    {EmptyDict, "problemTypes" :> ProblemTypes(<<Desc(<<"79">>)>>),
     "problemTypes" :> ProblemTypes(<<Desc(<<"CWE-", "20">>)>>)}

CweDocuments ==
    {Object("containers" :> (("cna" :> ("problemTypes" :> ProblemTypes(ds))) @@ ("adp" :> a))) :
        ds \in SeqsUpTo(DescriptionInputs, MaxBlocks),
        a \in SeqsUpTo(CweSectionInputs, MaxSections)}
    \cup {DocNoKeys, DocArray, DocInvalid}

CweDoc(cna_descriptions, sections) ==
    Object("containers" :> (("cna" :> ("problemTypes" :> ProblemTypes(cna_descriptions)))
                            @@ ("adp" :> sections)))

CweBatchDocuments ==
    {DocNoKeys, DocArray, DocInvalid,
     CweDoc(<<Desc(<<"79">>)>>, <<>>),
     CweDoc(<<Desc(<<"CWE-", "79">>)>>, <<>>),
     CweDoc(<<Desc(<<"CWE-", "79">>), Desc(<<"CWE-", "89">>)>>, <<>>),
     CweDoc(<<Desc(<<"CWE-", "79">>)>>, <<"problemTypes" :> ProblemTypes(<<Desc(<<"79">>)>>)>>),
     CweDoc(<<>>, <<"problemTypes" :> ProblemTypes(<<Desc(<<"CWE-", "20">>)>>)>>),
     CweDoc(<<Desc(NoCweId)>>, <<>>),
     CweDoc(<<EmptyDict>>, <<EmptyDict>>)}

-----------------------------------------------------------------------------
(* The programs *)

NoResult == Return(EmptyDict)

NoTrace == [taken |-> <<>>, exc |-> ""]

EmptyCounters == [k \in CounterKeys |-> EmptyBag]

Idle ==
    /\ vector_string = <<>>
    /\ parsed = NoResult
    /\ cvss_data = EmptyDict
    /\ decoded = NoResult
    /\ severity = NA
    /\ impact_value = None
    /\ normalized = None

\* The state at the top of the for loop, before its first iteration
Fresh ==
    /\ file_index = 0
    /\ data = DocNoKeys
    /\ total_files = 0
    /\ files_with_metrics = 0
    /\ files_processed = 0
    /\ cvss_v2_files = 0
    /\ cvss_v3_files = 0
    /\ frequency_counter = EmptyCounters
    /\ frequency_counter_v2 = EmptyBag
    /\ cwe_counter = EmptyBag
    /\ location_counter = EmptyBag
    /\ files_with_cwe = 0
    /\ cwe_ids = NoResult
    /\ trace = NoTrace
    /\ visits = [i \in 1..json_file_paths |-> 0]
    /\ docs_failed = 0
    /\ docs_with_blocks = 0

aggregation_vars ==
    <<json_file_paths, file_index, data, total_files, files_with_metrics, files_processed,
      cvss_v2_files, cvss_v3_files, frequency_counter, frequency_counter_v2, cwe_counter,
      location_counter, files_with_cwe, trace, visits, docs_failed, docs_with_blocks>>

\* Whether a document holds a score block, read off the document alone
HasScoreBlock(doc) ==
    /\ doc.kind = "object"
    /\ LET containers == Get(doc.obj, "containers", EmptyDict)
           cna == Get(containers, "cna", EmptyDict)
           adp == Get(containers, "adp", <<>>)
           impact == Get(doc.obj, "impact", NoImpact)
       IN  \/ Get(cna, "metrics", <<>>) # <<>>
           \/ \E j \in 1..Len(adp) : Get(adp[j], "metrics", <<>>) # <<>>
           \/ /\ impact.kind = "object"
              /\ \/ Get(Get(impact.obj, "baseMetricV3", EmptyDict), "cvssV3", EmptyDict) # EmptyDict
                 \/ Get(Get(impact.obj, "baseMetricV2", EmptyDict), "cvssV2", EmptyDict) # EmptyDict

(* parse: one call of a vector parser *)

InitParse ==
    /\ script = "parse"
    /\ pc = "ready"
    /\ vector_string \in VectorInputs
    /\ parsed = NoResult
    /\ cvss_data = EmptyDict
    /\ decoded = NoResult
    /\ severity = NA
    /\ impact_value = None
    /\ normalized = None
    /\ json_file_paths = 0
    /\ Fresh

CallParseV3 ==
    /\ script = "parse"
    /\ pc = "ready"
    /\ parsed' = parse_vector_string(vector_string)
    /\ pc' = "v3"
    /\ UNCHANGED <<script, cwe_ids, impact_value, normalized, vector_string, cvss_data,
                   decoded, severity, aggregation_vars>>

CallParseV2 ==
    /\ script = "parse"
    /\ pc = "ready"
    /\ parsed' = parse_vector_string_v2(vector_string)
    /\ pc' = "v2"
    /\ UNCHANGED <<script, cwe_ids, impact_value, normalized, vector_string, cvss_data,
                   decoded, severity, aggregation_vars>>

NextParse == CallParseV3 \/ CallParseV2

SpecParse == InitParse /\ [][NextParse]_vars

(* block: the decoder and the resolver applied to one score block *)

InitBlock ==
    /\ script = "block"
    /\ pc = "ready"
    /\ vector_string = <<>>
    /\ parsed = NoResult
    /\ cvss_data \in BlockInputs
    /\ decoded = NoResult
    /\ severity = NA
    /\ impact_value = None
    /\ normalized = None
    /\ json_file_paths = 0
    /\ Fresh

CallExtractMetrics ==
    /\ script = "block"
    /\ pc = "ready"
    /\ decoded' = extract_metrics(cvss_data)
    /\ pc' = "decoded"
    /\ UNCHANGED <<script, cwe_ids, impact_value, normalized, vector_string, parsed,
                   cvss_data, severity, aggregation_vars>>

CallExtractSeverity ==
    /\ script = "block"
    /\ pc = "ready"
    /\ severity' = extract_severity_from_cvss(cvss_data)
    /\ pc' = "resolved"
    /\ UNCHANGED <<script, cwe_ids, impact_value, normalized, vector_string, parsed,
                   cvss_data, decoded, aggregation_vars>>

NextBlock == CallExtractMetrics \/ CallExtractSeverity

SpecBlock == InitBlock /\ [][NextBlock]_vars

(* normalize: normalize_impact applied to a value, then to its own result *)

InitNormalize ==
    /\ script = "normalize"
    /\ pc = "ready"
    /\ vector_string = <<>>
    /\ parsed = NoResult
    /\ cvss_data = EmptyDict
    /\ decoded = NoResult
    /\ severity = NA
    /\ impact_value \in ImpactValues
    /\ normalized = None
    /\ json_file_paths = 0
    /\ Fresh

CallNormalizeImpact ==
    /\ script = "normalize"
    /\ pc = "ready"
    /\ normalized' = normalize_impact(impact_value)
    /\ pc' = "normalized"
    /\ UNCHANGED <<script, cwe_ids, impact_value, vector_string, parsed, cvss_data, decoded,
                   severity,
                   aggregation_vars>>

\* normalize_impact(normalize_impact(x)): the second call takes the first result
CallNormalizeImpactAgain ==
    /\ script = "normalize"
    /\ pc = "normalized"
    /\ impact_value' = normalized
    /\ normalized' = normalize_impact(normalized)
    /\ pc' = "renormalized"
    /\ UNCHANGED <<script, cwe_ids, vector_string, parsed, cvss_data, decoded, severity,
                   aggregation_vars>>

NextNormalize == CallNormalizeImpact \/ CallNormalizeImpactAgain

SpecNormalize == InitNormalize /\ [][NextNormalize]_vars

(* cvss_metrics.py process_json_files and cwe_stats.py process_json_files_for_cwe *)

Init ==
    /\ script \in {"cvss_metrics", "cvss_metric_plot", "cwe_stats"}
    /\ pc = "loop"
    /\ Idle
    /\ json_file_paths \in 0..MaxFiles
    /\ Fresh

\* One iteration of "for file_path in json_file_paths" of process_json_files
ProcessFile(doc) ==
    /\ script \in {"cvss_metrics", "cvss_metric_plot"}
    /\ pc = "loop"
    /\ file_index < json_file_paths
    /\ \E S \in {process_document([fc |-> frequency_counter, auth |-> frequency_counter_v2,
                                   v2 |-> cvss_v2_files, v3 |-> cvss_v3_files,
                                   has_metrics |-> FALSE, exc |-> "", taken |-> <<>>,
                                   normalize |-> script = "cvss_metric_plot"], doc)} :
       \E counts \in {after_try(S, [with_metrics |-> files_with_metrics,
                                    processed |-> files_processed])} :
           /\ total_files' = total_files + 1
           /\ frequency_counter' = S.fc
           /\ frequency_counter_v2' = S.auth
           /\ cvss_v2_files' = S.v2
           /\ cvss_v3_files' = S.v3
           /\ files_with_metrics' = counts.with_metrics
           /\ files_processed' = counts.processed
           /\ trace' = [taken |-> S.taken, exc |-> S.exc]
           /\ docs_failed' = IF S.exc # "" THEN docs_failed + 1 ELSE docs_failed
           /\ pc' = IF S.exc # "" /\ ~Caught(S.exc) THEN "crashed" ELSE "loop"
    /\ file_index' = file_index + 1
    /\ visits' = [visits EXCEPT ![file_index + 1] = @ + 1]
    /\ data' = doc
    /\ docs_with_blocks' = IF HasScoreBlock(doc) THEN docs_with_blocks + 1 ELSE docs_with_blocks
    /\ UNCHANGED <<script, cwe_ids, impact_value, normalized, vector_string, parsed,
                   cvss_data, decoded, severity,
                   json_file_paths, cwe_counter, location_counter, files_with_cwe>>

\* After the loop: the Authentication merge and the return
Finish ==
    /\ script \in {"cvss_metrics", "cvss_metric_plot"}
    /\ pc = "loop"
    /\ file_index = json_file_paths
    /\ frequency_counter' = merge_authentication(frequency_counter, frequency_counter_v2)
    /\ pc' = "done"
    /\ UNCHANGED <<script, cwe_ids, impact_value, normalized, vector_string, parsed,
                   cvss_data, decoded, severity,
                   json_file_paths, file_index, data, total_files, files_with_metrics,
                   files_processed, cvss_v2_files, cvss_v3_files, frequency_counter_v2,
                   cwe_counter, location_counter, files_with_cwe, trace, visits,
                   docs_failed, docs_with_blocks>>

\* One iteration of "for file_path in json_file_paths" of process_json_files_for_cwe
CweProcessFile(doc) ==
    /\ script = "cwe_stats"
    /\ pc = "loop"
    /\ file_index < json_file_paths
    /\ \E W \in {count_document([counter |-> cwe_counter, has_cwe |-> FALSE,
                                  found_in_cna |-> FALSE, found_in_adp |-> FALSE,
                                  exc |-> ""], doc)} :
           /\ total_files' = total_files + 1
           /\ cwe_counter' = W.counter
           /\ files_with_cwe' = IF W.exc = "" /\ W.has_cwe
                                THEN files_with_cwe + 1 ELSE files_with_cwe
           /\ location_counter' = IF W.exc = "" /\ W.has_cwe
                                  THEN Inc(location_counter, location_of(W))
                                  ELSE location_counter
           /\ files_processed' = IF W.exc = "" THEN files_processed + 1 ELSE files_processed
           /\ trace' = [taken |-> <<>>, exc |-> W.exc]
           /\ docs_failed' = IF W.exc # "" THEN docs_failed + 1 ELSE docs_failed
           /\ pc' = IF W.exc # "" /\ ~Caught(W.exc) THEN "crashed" ELSE "loop"
    /\ file_index' = file_index + 1
    /\ visits' = [visits EXCEPT ![file_index + 1] = @ + 1]
    /\ data' = doc
    /\ UNCHANGED <<script, cwe_ids, impact_value, normalized, vector_string, parsed,
                   cvss_data, decoded, severity,
                   json_file_paths, files_with_metrics, cvss_v2_files, cvss_v3_files,
                   frequency_counter, frequency_counter_v2, docs_with_blocks>>

CweFinish ==
    /\ script = "cwe_stats"
    /\ pc = "loop"
    /\ file_index = json_file_paths
    /\ pc' = "done"
    /\ UNCHANGED <<script, cwe_ids, impact_value, normalized, vector_string, parsed,
                   cvss_data, decoded, severity,
                   aggregation_vars>>

Next ==
    \/ \E doc \in BatchDocumentsOf(script) : ProcessFile(doc)
    \/ Finish
    \/ \E doc \in CweBatchDocuments : CweProcessFile(doc)
    \/ CweFinish

Spec == Init /\ [][Next]_vars

\* The for loop runs to its end: no iteration blocks
FairSpec == Spec /\ WF_vars(Next)

(* The same programs run over a folder that holds one file, and                       *)
(* extract_cwe_ids_from_data applied to the document of that file                     *)

InitDocument ==
    /\ script \in {"cvss_metrics", "cvss_metric_plot", "cwe_stats"}
    /\ pc = "loop"
    /\ Idle
    /\ json_file_paths = 1
    /\ Fresh

CallExtractCweIds ==
    /\ script = "cwe_stats"
    /\ pc = "done"
    /\ file_index >= 1
    /\ data.kind # "invalid"
    /\ cwe_ids' = extract_cwe_ids_from_data(data)
    /\ pc' = "extracted"
    /\ UNCHANGED <<script, impact_value, normalized, vector_string, parsed, cvss_data,
                   decoded, severity, aggregation_vars>>

NextDocument ==
    \/ \E doc \in MetricsDocuments : ProcessFile(doc)
    \/ Finish
    \/ \E doc \in CweDocuments : CweProcessFile(doc)
    \/ CweFinish
    \/ CallExtractCweIds

SpecDocument == InitDocument /\ [][NextDocument]_vars

-----------------------------------------------------------------------------
(* Claims about the Vector Grammar Parser (SpecParse) *)

Called == pc \in {"v3", "v2"}

GrammarDimensions == IF pc = "v3" THEN V3Dimensions ELSE V2Dimensions

\* The vector-string key of each dimension
KeyOf ==
    ("Confidentiality" :> "C") @@ ("Integrity" :> "I") @@ ("Availability" :> "A")
    @@ ("Attack Vector" :> "AV") @@ ("Attack Complexity" :> "AC")
    @@ ("Privileges Required" :> "PR") @@ ("User Interaction" :> "UI")
    @@ ("Scope" :> "S") @@ ("Authentication" :> "Au")

\* KEY:VALUE/KEY:VALUE/.../KEY:VALUE with every key and value non-empty
WellFormedVector(s) ==
    /\ Len(s) % 4 = 3
    /\ \A i \in 1..Len(s) :
          /\ i % 4 = 1 => s[i] \notin Delimiters
          /\ i % 4 = 2 => s[i] = ":"
          /\ i % 4 = 3 => s[i] \notin Delimiters
          /\ i % 4 = 0 => s[i] = "/"

\* The positions at which a well-formed vector holds the key
KeyPositions(s, key) == {i \in 1..Len(s) : i % 4 = 1 /\ s[i] = key}

\* C1: for every vector string, parse_vector_string and parse_vector_string_v2 return
\* without raising, and the map returned holds every dimension of the grammar.
C1_ParseNeverRaises ==
    Called => /\ parsed.exc = ""
              /\ GrammarDimensions \subseteq DOMAIN parsed.val

\* C2: for a vector of well-formed KEY:VALUE segments, every grammar key that occurs
\* exactly once gives its dimension the segment's value, every grammar key that does
\* not occur leaves its dimension at 'N/A', and the empty vector gives 'N/A' everywhere.
C2_WellFormedVectorDecoded ==
    (Called /\ (vector_string = <<>> \/ WellFormedVector(vector_string))) =>
        /\ parsed.exc = ""
        /\ \A d \in GrammarDimensions :
              LET occ == KeyPositions(vector_string, KeyOf[d]) IN
              /\ occ = {} => parsed.val[d] = NA
              /\ Cardinality(occ) = 1 => \A i \in occ : parsed.val[d] = vector_string[i + 2]

C2_Witness ==
    /\ pc = "v3"
    /\ vector_string = ExampleV3
    /\ parsed.exc = ""
    /\ parsed.val["Attack Vector"] = "N"
    /\ parsed.val["Attack Complexity"] = "L"
    /\ parsed.val["Privileges Required"] = "N"
    /\ parsed.val["User Interaction"] = "N"
    /\ parsed.val["Scope"] = "U"
    /\ parsed.val["Confidentiality"] = "H"
    /\ parsed.val["Integrity"] = "H"
    /\ parsed.val["Availability"] = "H"

-----------------------------------------------------------------------------
(* Claims about the Severity Resolver (SpecBlock) *)

IsV3Block(block) == "cvssV3_1" \in DOMAIN block \/ "cvssV3_0" \in DOMAIN block

IsV2Block(block) == ~IsV3Block(block) /\ "cvssV2_0" \in DOMAIN block

\* The object of the block under its first version key
ObjectOf(block) ==
    IF "cvssV3_1" \in DOMAIN block THEN block["cvssV3_1"]
    ELSE IF "cvssV3_0" \in DOMAIN block THEN block["cvssV3_0"]
    ELSE IF "cvssV2_0" \in DOMAIN block THEN block["cvssV2_0"]
    ELSE EmptyDict

HasLabel(obj) == "baseSeverity" \in DOMAIN obj /\ obj["baseSeverity"] # ""

HasScore(obj) == "baseScore" \in DOMAIN obj

\* The tiers of the two standards, in tenths of a point
V3Tier(score) ==
    CASE score \in 90..(MaxBaseScore + 1) -> "Critical"
      [] score \in 70..89 -> "High"
      [] score \in 40..69 -> "Medium"
      [] score \in 1..39 -> "Low"
      [] OTHER -> NA

V2Tier(score) ==
    CASE score \in 70..(MaxBaseScore + 1) -> "High"
      [] score \in 40..69 -> "Medium"
      [] score \in 1..39 -> "Low"
      [] OTHER -> NA

LabelTier(label) ==
    CASE label = "CRITICAL" -> "Critical"
      [] label = "HIGH" -> "High"
      [] label = "MEDIUM" -> "Medium"
      [] label = "LOW" -> "Low"
      [] OTHER -> NA

\* C3: without an explicit label the severity comes from the base score: a v3 block by
\* the tiers 9.0 / 7.0 / 4.0 / 0.1, a v2 block by 7.0 / 4.0 / 0.1 and never Critical,
\* and a block with neither label nor score is 'N/A'.
C3_SeverityFromScore ==
    pc = "resolved" =>
        LET obj == ObjectOf(cvss_data) IN
        /\ (IsV3Block(cvss_data) /\ ~HasLabel(obj) /\ HasScore(obj))
               => severity = V3Tier(obj["baseScore"])
        /\ (IsV2Block(cvss_data) /\ HasScore(obj))
               => severity = V2Tier(obj["baseScore"]) /\ severity # "Critical"
        /\ (~HasLabel(obj) /\ ~HasScore(obj)) => severity = NA

C3_Witness ==
    /\ pc = "resolved"
    /\ cvss_data = ("cvssV2_0" :> ("baseScore" :> 98))
    /\ severity = "High"
    /\ V3Tier(98) = "Critical"

\* C4: a v3 block that carries a (non-empty) severity label resolves by the label
\* alone, CRITICAL/HIGH/MEDIUM/LOW matched exactly and any other label 'N/A',
\* whatever base score the block also carries.
C4_LabelTakesPriority ==
    (pc = "resolved" /\ IsV3Block(cvss_data) /\ HasLabel(ObjectOf(cvss_data))) =>
        severity = LabelTier(ObjectOf(cvss_data)["baseSeverity"])

C4_Witness ==
    /\ pc = "resolved"
    /\ cvss_data = ("cvssV3_1" :> (("baseSeverity" :> "HIGH") @@ ("baseScore" :> 98)))
    /\ severity = "High"

-----------------------------------------------------------------------------
(* Claims about the Container Locator (SpecDocument) *)

MetricsRun == script = "cvss_metrics"

SourcesTaken == {trace.taken[i].source : i \in 1..Len(trace.taken)}

Entries(blocks, source, section) ==
    [i \in 1..Len(blocks) |-> [source |-> source, section |-> section, block |-> blocks[i]]]

\* The blocks of the sections j, j + 1, ... of an adp list, in document order
RECURSIVE SecondaryEntries(_, _)
SecondaryEntries(adp, j) ==
    IF j > Len(adp) THEN <<>>
    ELSE Entries(Get(adp[j], "metrics", <<>>), "secondary", j) \o SecondaryEntries(adp, j + 1)

\* The score blocks of a document by the priority order primary, secondary, legacy
\* (v3 sub-block before v2 sub-block), read off the document alone
Located(doc) ==
    IF doc.kind # "object" THEN <<>>
    ELSE LET containers == Get(doc.obj, "containers", EmptyDict)
             primary == Get(Get(containers, "cna", EmptyDict), "metrics", <<>>)
             secondary == SecondaryEntries(Get(containers, "adp", <<>>), 1)
             impact == Get(doc.obj, "impact", NoImpact)
             legacy3 == Get(Get(impact.obj, "baseMetricV3", EmptyDict), "cvssV3", EmptyDict)
             legacy2 == Get(Get(impact.obj, "baseMetricV2", EmptyDict), "cvssV2", EmptyDict)
         IN  IF primary # <<>> THEN Entries(primary, "primary", 0)
             ELSE IF secondary # <<>> THEN secondary
             ELSE IF impact.kind # "object" THEN <<>>
             ELSE IF legacy3 # EmptyDict THEN Entries(<<legacy3>>, "legacy", 0)
             ELSE IF legacy2 # EmptyDict THEN Entries(<<legacy2>>, "legacy", 0)
             ELSE <<>>

IsPrefix(s, t) == Len(s) <= Len(t) /\ SubSeq(t, 1, Len(s)) = s

\* C5: the score blocks of a document that reach the aggregate come from one source
\* only: primary, secondary or legacy.
C5_OneSourcePerDocument ==
    MetricsRun => Cardinality(SourcesTaken) <= 1

C5_Witness ==
    /\ MetricsRun
    /\ file_index = 1
    /\ data = DocAllSources
    /\ SourcesTaken = {"primary"}
    /\ cvss_v3_files = 1
    /\ cvss_v2_files = 0

\* C6: the blocks taken are those of the primary list if it is non-empty, otherwise
\* those of every secondary section together, otherwise the legacy v3 sub-block,
\* otherwise the legacy v2 sub-block, otherwise none; an iteration that raises has
\* taken a leading part of them.
C6_SourcePriority ==
    (MetricsRun /\ file_index = 1) =>
        /\ IsPrefix(trace.taken, Located(data))
        /\ trace.exc = "" => trace.taken = Located(data)

C6_Witness ==
    /\ MetricsRun
    /\ file_index = 1
    /\ data = AdpDoc(<<"metrics" :> <<BlockV2>>, "metrics" :> <<BlockV30>>>>)
    /\ trace.exc = ""
    /\ Len(trace.taken) = 2
    /\ trace.taken[1].section = 1
    /\ trace.taken[2].section = 2
    /\ cvss_v2_files = 1
    /\ cvss_v3_files = 1

-----------------------------------------------------------------------------
(* Claims about the aggregation loop (Spec, FairSpec) *)

Taking == pc = "loop" /\ file_index' = file_index + 1

MetricsTables ==
    <<files_with_metrics, cvss_v2_files, cvss_v3_files, frequency_counter, frequency_counter_v2>>

WeaknessTables == <<cwe_counter, location_counter, files_with_cwe>>

\* C7: files_with_metrics equals the number of documents taken that hold at least one
\* score block.
C7_WithMetricsCountsDocuments ==
    MetricsRun => files_with_metrics = docs_with_blocks

\* C8: a document that is an object without containers and without impact raises no
\* error, adds one to total_files and leaves files_with_metrics, the version totals,
\* every metric and severity counter and the weakness counters as they were.
C8_EmptyDocumentFrame ==
    [][(Taking /\ data' = DocNoKeys) =>
          /\ trace'.exc = ""
          /\ trace'.taken = <<>>
          /\ total_files' = total_files + 1
          /\ UNCHANGED MetricsTables
          /\ UNCHANGED WeaknessTables]_vars

C8_Witness ==
    /\ MetricsRun
    /\ data = DocNoKeys
    /\ total_files = 2
    /\ files_with_metrics = 1
    /\ Total(frequency_counter["Confidentiality"]) > 0
    /\ trace.exc = ""

\* C9 as stated: a document that cannot be decoded leaves every counter, total_files
\* included, as it was.
C9_UndecodableLeavesAllCounters ==
    [][(Taking /\ data'.kind # "object") =>
          /\ UNCHANGED <<total_files, files_processed>>
          /\ UNCHANGED MetricsTables
          /\ UNCHANGED WeaknessTables]_vars

\* C9 amended: a document that cannot be decoded is reported, adds one to total_files
\* and leaves files_processed, files_with_metrics, the version totals and every
\* frequency counter as they were.
C9_UndecodableCountedInTotalOnly ==
    [][(Taking /\ data'.kind # "object") =>
          /\ trace'.exc # ""
          /\ total_files' = total_files + 1
          /\ UNCHANGED files_processed
          /\ UNCHANGED MetricsTables
          /\ UNCHANGED WeaknessTables]_vars

C9_Witness ==
    /\ MetricsRun
    /\ data = DocArray
    /\ trace.exc = "AttributeError"
    /\ total_files = 2
    /\ files_processed = 1
    /\ files_with_metrics = 1
    /\ Total(frequency_counter["Confidentiality"]) > 0

C10_Safety ==
    /\ pc # "crashed"
    /\ file_index <= json_file_paths
    /\ total_files = file_index
    /\ \A i \in 1..json_file_paths : visits[i] = (IF i <= file_index THEN 1 ELSE 0)
    /\ files_with_metrics <= files_processed
    /\ files_processed <= total_files
    /\ total_files - files_processed = docs_failed
    /\ pc = "done" => file_index = json_file_paths

\* C10: a failing document never aborts the batch: no exception leaves the loop, every
\* file is taken exactly once, the run ends, and files_with_metrics <= files_processed
\* <= total_files with total_files - files_processed the number of failed documents.
C10_BatchSurvivesFailures == [](C10_Safety) /\ <>(pc = "done")

C10_Witness ==
    /\ pc = "done"
    /\ MetricsRun
    /\ json_file_paths = 2
    /\ docs_failed = 1
    /\ trace.exc = ""
    /\ files_processed = 1
    /\ files_with_metrics = 1
    /\ Total(frequency_counter["Confidentiality"]) > 0

-----------------------------------------------------------------------------
(* Claims about the weakness identifiers (SpecDocument) *)

WeaknessRun == script = "cwe_stats"

\* The non-empty identifiers a document carries, in document order
RECURSIVE DescriptionIds(_)
DescriptionIds(descriptions) ==
    IF descriptions = <<>> THEN <<>>
    ELSE LET id == Get(Head(descriptions), "cweId", NoCweId) IN
         (IF id = NoCweId THEN <<>> ELSE <<id>>) \o DescriptionIds(Tail(descriptions))

RECURSIVE ProblemTypeIds(_)
ProblemTypeIds(problem_types) ==
    IF problem_types = <<>> THEN <<>>
    ELSE DescriptionIds(Get(Head(problem_types), "descriptions", <<>>))
         \o ProblemTypeIds(Tail(problem_types))

RECURSIVE SectionIds(_)
SectionIds(sections) ==
    IF sections = <<>> THEN <<>>
    ELSE ProblemTypeIds(Get(Head(sections), "problemTypes", <<>>)) \o SectionIds(Tail(sections))

WeaknessIds(doc) ==
    IF doc.kind # "object" THEN <<>>
    ELSE LET containers == Get(doc.obj, "containers", EmptyDict) IN
         ProblemTypeIds(Get(Get(containers, "cna", EmptyDict), "problemTypes", <<>>))
         \o SectionIds(Get(containers, "adp", <<>>))

\* An identifier without its 'CWE-' prefix, and with it
Bare(id) == IF id # <<>> /\ id[1] = "CWE-" THEN Tail(id) ELSE id

Prefixed(id) == <<"CWE-">> \o Bare(id)

\* C11: identifiers that differ only by the 'CWE-' prefix count under one entry of the
\* weakness counter, the prefixed one; an identifier that already starts with 'CWE-' is
\* left unchanged, and canonicalizing twice is canonicalizing once.
C11_PrefixCanonical ==
    (WeaknessRun /\ file_index = 1) =>
        LET ids == WeaknessIds(data) IN
        /\ \A i \in 1..Len(ids) :
              /\ Count(cwe_counter, Prefixed(ids[i])) =
                     Cardinality({j \in 1..Len(ids) : Bare(ids[j]) = Bare(ids[i])})
              /\ standardize(standardize(ids[i])) = standardize(ids[i])
              /\ startswith_CWE(ids[i]) => standardize(ids[i]) = ids[i]
        /\ \A c \in BagToSet(cwe_counter) :
              /\ startswith_CWE(c)
              /\ \E i \in 1..Len(ids) : c = Prefixed(ids[i])

C11_Witness ==
    /\ WeaknessRun
    /\ file_index = 1
    /\ data = CweDoc(<<Desc(<<"CWE-", "79">>)>>,
                     <<"problemTypes" :> ProblemTypes(<<Desc(<<"79">>)>>)>>)
    /\ Count(cwe_counter, <<"CWE-", "79">>) = 2
    /\ Total(cwe_counter) = 2

-----------------------------------------------------------------------------
(* Claims about the impact normalisation (SpecNormalize) *)

ImpactLabels ==
    {PyStr(<<"H", "I", "G", "H">>), PyStr(<<"L", "O", "W">>), PyStr(<<"N", "O", "N", "E">>),
     PyStr(<<"M", "E", "D", "I", "U", "M">>), PyStr(<<"N", "/", "A">>)}

\* C12: normalize_impact(normalize_impact(x)) = normalize_impact(x) for every value x:
\* None, single letters, full words in any case, unrecognised values.
C12_NormalizeIdempotent ==
    [][(pc = "normalized" /\ pc' = "renormalized") =>
          /\ normalized' = normalized
          /\ normalized \in ImpactLabels]_vars

C12_Witness ==
    /\ pc = "renormalized"
    /\ impact_value = PyStr(<<"H", "I", "G", "H">>)
    /\ normalized = PyStr(<<"H", "I", "G", "H">>)

-----------------------------------------------------------------------------
(* Claims about the segments of a vector string (SpecParse) *)

\* The '/'-separated segments of a vector; the empty vector has none
Segments(s) == IF s = <<>> THEN <<>> ELSE split(s, "/")

Colons(seg) == Cardinality({i \in 1..Len(seg) : seg[i] = ":"})

\* A segment of the form key:value, either side possibly empty
IsKeyValue(seg) == Colons(seg) = 1

SegKey(seg) == IF seg[1] = ":" THEN "" ELSE seg[1]

SegValue(seg) == IF seg[Len(seg)] = ":" THEN "" ELSE seg[Len(seg)]

GrammarKeys == {KeyOf[d] : d \in GrammarDimensions}

\* The segments that give the key its value, by position
Occurrences(segs, key) ==
    {i \in 1..Len(segs) : IsKeyValue(segs[i]) /\ SegKey(segs[i]) = key}

Last(positions) == CHOOSE i \in positions : \A j \in positions : j <= i

Skipped(seg) == ~IsKeyValue(seg) \/ SegKey(seg) \notin GrammarKeys

\* The vector without its skipped segments
WithoutSkipped(s) == Join(SelectSeq(Segments(s), LAMBDA seg : ~Skipped(seg)))

\* C14: a segment that cannot be split into key:value, or whose key the grammar does
\* not know, is skipped: the parser raises nothing and returns what it returns for the
\* vector without the skipped segments.
C14_SkippedSegmentsNeutral ==
    Called =>
        /\ parsed.exc = ""
        /\ parsed = IF pc = "v3"
                    THEN parse_vector_string(WithoutSkipped(vector_string))
                    ELSE parse_vector_string_v2(WithoutSkipped(vector_string))

-----------------------------------------------------------------------------
(* Claims about the Field Decoder (SpecBlock) *)

\* The first of cvssV3_1, cvssV3_0, cvssV2_0 that the block carries, "" for none
FirstVersionKey(block) ==
    IF "cvssV3_1" \in DOMAIN block THEN "cvssV3_1"
    ELSE IF "cvssV3_0" \in DOMAIN block THEN "cvssV3_0"
    ELSE IF "cvssV2_0" \in DOMAIN block THEN "cvssV2_0"
    ELSE ""

\* The block with every version key but the first one removed
OnlyFirstVersion(block) ==
    IF FirstVersionKey(block) = "" THEN EmptyDict
    ELSE FirstVersionKey(block) :> block[FirstVersionKey(block)]

DimensionsOf(key) == IF key = "cvssV2_0" THEN V2Dimensions ELSE V3Dimensions

\* C15: the decoder and the severity resolver dispatch on cvssV3_1, cvssV3_0, cvssV2_0
\* in this order and the first key present wins: a block with several version keys
\* gives what the block with that first key alone gives, in the v3 dimensions for the
\* two v3 keys and in the v2 dimensions for cvssV2_0.
C15_FirstVersionKeyWins ==
    LET key == FirstVersionKey(cvss_data) IN
    /\ pc = "decoded" =>
          /\ decoded = extract_metrics(OnlyFirstVersion(cvss_data))
          /\ (key # "" /\ decoded.exc = "") =>
                 DOMAIN decoded.val = DimensionsOf(key) \cup {"baseSeverity"}
          /\ key = "" => decoded = Return(EmptyDict)
    /\ pc = "resolved" =>
          /\ severity = extract_severity_from_cvss(OnlyFirstVersion(cvss_data))
          /\ key = "cvssV2_0" => severity = v2_severity(cvss_data[key])
          /\ key \in {"cvssV3_1", "cvssV3_0"} => severity = v3_severity(cvss_data[key])

C15_Witness ==
    /\ pc = "decoded"
    /\ cvss_data = ("cvssV3_1" :> ObjFields) @@ ("cvssV3_0" :> ObjHighVector)
                   @@ ("cvssV2_0" :> ObjV2Vector)
    /\ decoded.exc = ""
    /\ decoded.val["Scope"] = "UNCHANGED"
    /\ decoded.val["Attack Vector"] = "NETWORK"

\* The direct field of each dimension, per standard
V3FieldOf ==
    ("Confidentiality" :> "confidentialityImpact") @@ ("Integrity" :> "integrityImpact")
    @@ ("Availability" :> "availabilityImpact") @@ ("Attack Vector" :> "attackVector")
    @@ ("Attack Complexity" :> "attackComplexity")
    @@ ("Privileges Required" :> "privilegesRequired")
    @@ ("User Interaction" :> "userInteraction") @@ ("Scope" :> "scope")

V2FieldOf ==
    ("Confidentiality" :> "confidentialityImpact") @@ ("Integrity" :> "integrityImpact")
    @@ ("Availability" :> "availabilityImpact") @@ ("Attack Vector" :> "accessVector")
    @@ ("Attack Complexity" :> "accessComplexity") @@ ("Authentication" :> "authentication")

\* C16: a block of a known version with a non-empty vector string is decoded by the
\* vector parser of its standard alone, direct fields not consulted; with an empty or
\* absent vector string every dimension is its direct field, 'N/A' when the field is
\* absent.
C16_VectorElseFields ==
    LET key == FirstVersionKey(cvss_data) IN
    (pc = "decoded" /\ key # "") =>
        LET obj == cvss_data[key]
            vs == Get(obj, "vectorString", <<>>)
            field == IF key = "cvssV2_0" THEN V2FieldOf ELSE V3FieldOf
        IN
        /\ vs # <<>> => decoded = IF key = "cvssV2_0" THEN parse_vector_string_v2(vs)
                                  ELSE parse_vector_string(vs)
        /\ vs = <<>> =>
              /\ decoded.exc = ""
              /\ \A d \in DimensionsOf(key) :
                    decoded.val[d] = IF field[d] \in DOMAIN obj THEN obj[field[d]] ELSE NA

C16_Witness ==
    /\ pc = "decoded"
    /\ cvss_data = ("cvssV3_0" :> ObjVectorAndFields)
    /\ decoded.exc = ""
    /\ decoded.val["Attack Vector"] = "N"
    /\ decoded.val["Confidentiality"] = NA

-----------------------------------------------------------------------------
(* Claims about the blocks that reach the aggregate (SpecDocument, Spec) *)

\* A primary or secondary block that carries none of the three version keys
UnknownVersion(entry) == entry.source # "legacy" /\ FirstVersionKey(entry.block) = ""

KnownIn(entries) == {i \in 1..Len(entries) : ~UnknownVersion(entries[i])}

Dimensions5 ==
    {"Confidentiality", "Integrity", "Availability", "Attack Vector", "Attack Complexity"}

\* C17: a block of no known version is skipped in silence: it raises nothing, counts
\* in no dimension counter, no severity counter and no version total, and the blocks
\* after it are processed all the same.
C17_UnknownVersionSkipped ==
    (MetricsRun /\ file_index = 1) =>
        LET taken == trace.taken IN
        /\ (trace.exc # "" /\ taken # <<>>) => ~UnknownVersion(taken[Len(taken)])
        /\ KnownIn(taken) = {} =>
              /\ cvss_v2_files = 0
              /\ cvss_v3_files = 0
              /\ frequency_counter_v2 = EmptyBag
              /\ \A k \in DOMAIN frequency_counter : frequency_counter[k] = EmptyBag
        /\ trace.exc = "" =>
              /\ cvss_v2_files + cvss_v3_files = Cardinality(KnownIn(Located(data)))
              /\ (Located(data) # <<>> /\ Located(data)[1].source # "legacy") =>
                     Total(frequency_counter["Confidentiality"])
                         = Cardinality(KnownIn(Located(data)))

C17_Witness ==
    /\ MetricsRun
    /\ file_index = 1
    /\ data = CnaDoc(<<BlockUnknown, BlockV31>>)
    /\ trace.exc = ""
    /\ Len(trace.taken) = 2
    /\ files_with_metrics = 1
    /\ cvss_v3_files = 1
    /\ cvss_v2_files = 0
    /\ Total(frequency_counter["Confidentiality"]) = 1

\* A block the loop accepts: a legacy sub-block, or a block the decoder gives metrics for
Accepted(entry) ==
    \/ entry.source = "legacy"
    \/ /\ extract_metrics(entry.block).exc = ""
       /\ extract_metrics(entry.block).val # EmptyDict

AcceptedIn(entries) == {i \in 1..Len(entries) : Accepted(entries[i])}

\* C18: the version totals count documents: an iteration adds one to exactly one of
\* cvss_v2_files and cvss_v3_files when the document has an accepted block, and
\* nothing otherwise.
C18_VersionTotalsPerDocument ==
    [][(Taking /\ MetricsRun /\ trace'.exc = "") =>
          (cvss_v2_files' + cvss_v3_files') - (cvss_v2_files + cvss_v3_files)
              = IF AcceptedIn(trace'.taken) # {} THEN 1 ELSE 0]_vars

SeverityLabels == {"Critical", "High", "Medium", "Low"}

\* C19: the severity counter grows by at most one per score block and never for the
\* undetermined label: its keys stay within Critical, High, Medium, Low.
C19_NoUndeterminedSeverity ==
    [][(Taking /\ MetricsRun) =>
          /\ BagToSet(frequency_counter'["SeverityLevel"]) \subseteq SeverityLabels
          /\ Total(frequency_counter'["SeverityLevel"])
                 <= Total(frequency_counter["SeverityLevel"]) + Len(trace'.taken)]_vars

\* C20: every accepted block of a document, from whichever source, adds exactly one to
\* each of the Confidentiality, Integrity, Availability, Attack Vector and Attack
\* Complexity counters.
C20_EveryBlockFolded ==
    [][(Taking /\ MetricsRun /\ trace'.exc = "") =>
          \A d \in Dimensions5 :
              Total(frequency_counter'[d])
                  = Total(frequency_counter[d]) + Cardinality(AcceptedIn(trace'.taken))]_vars

-----------------------------------------------------------------------------
(* Claims about the weakness walks (SpecDocument, Spec) *)

\* The identifiers of a document in their prefixed form
PrefixedIds(doc) == {Prefixed(WeaknessIds(doc)[i]) : i \in 1..Len(WeaknessIds(doc))}

\* C21: the weakness walk never short-circuits: the identifiers of the primary section
\* and of every secondary section are all collected, by the counting loop and by
\* extract_cwe_ids_from_data alike, and an entry with an absent or empty cweId is
\* skipped without error.
C21_NoShortCircuit ==
    (WeaknessRun /\ file_index = 1 /\ data.kind = "object") =>
        /\ trace.exc = ""
        /\ BagToSet(cwe_counter) = PrefixedIds(data)
        /\ pc = "extracted" =>
              /\ cwe_ids.exc = ""
              /\ BagToSet(cwe_ids.val) = PrefixedIds(data)

C21_Witness ==
    /\ WeaknessRun
    /\ pc = "extracted"
    /\ data = CweDoc(<<Desc(<<"CWE-", "79">>), Desc(NoCweId)>>,
                     <<EmptyDict, "problemTypes" :> ProblemTypes(<<Desc(<<"CWE-", "20">>)>>)>>)
    /\ BagToSet(cwe_counter) = {<<"CWE-", "79">>, <<"CWE-", "20">>}
    /\ BagToSet(cwe_ids.val) = {<<"CWE-", "79">>, <<"CWE-", "20">>}

\* C22: frequency is counted per occurrence and coverage per document: a document that
\* cites identifiers n times adds n to the frequency counter, k to the entry of an
\* identifier cited k times, exactly one to files_with_cwe, and the list returned by
\* extract_cwe_ids_from_data holds each identifier once.
C22_OccurrencesAndCoverage ==
    (WeaknessRun /\ file_index = 1 /\ data.kind = "object") =>
        LET ids == WeaknessIds(data) IN
        /\ Total(cwe_counter) = Len(ids)
        /\ \A c \in PrefixedIds(data) :
              Count(cwe_counter, c) = Cardinality({i \in 1..Len(ids) : Prefixed(ids[i]) = c})
        /\ files_with_cwe = IF ids = <<>> THEN 0 ELSE 1
        /\ pc = "extracted" => \A c \in PrefixedIds(data) : Count(cwe_ids.val, c) = 1

C22_Witness ==
    /\ WeaknessRun
    /\ pc = "extracted"
    /\ data = CweDoc(<<Desc(<<"CWE-", "79">>)>>,
                     <<"problemTypes" :> ProblemTypes(<<Desc(<<"79">>)>>)>>)
    /\ Count(cwe_counter, <<"CWE-", "79">>) = 2
    /\ files_with_cwe = 1
    /\ Count(cwe_ids.val, <<"CWE-", "79">>) = 1

Locations == {"Both", "cna only", "adp only"}

\* C30: the two weakness walks agree on every document: the entries of the frequency
\* counter that an iteration increments are the identifiers extract_cwe_ids_from_data
\* returns for the document; the iteration adds one to files_with_cwe exactly when
\* there is such an identifier and then one to exactly one location category, so the
\* location counts sum to files_with_cwe and the frequency counter sums to no less.
C30_WalksAgree ==
    /\ [](WeaknessRun =>
             /\ BagToSet(location_counter) \subseteq Locations
             /\ Total(location_counter) = files_with_cwe
             /\ Total(cwe_counter) >= files_with_cwe)
    /\ [][(Taking /\ WeaknessRun /\ data'.kind = "object") =>
             LET ids == BagToSet(extract_cwe_ids_from_data(data').val)
                 grown == {c \in BagToSet(cwe_counter') :
                              Count(cwe_counter', c) > Count(cwe_counter, c)}
                 one == IF ids # {} THEN 1 ELSE 0
             IN  /\ grown = ids
                 /\ files_with_cwe' = files_with_cwe + one
                 /\ Total(location_counter') = Total(location_counter) + one]_vars

C30_Witness ==
    /\ WeaknessRun
    /\ pc = "done"
    /\ files_with_cwe = 2
    /\ files_processed = 3
    /\ Count(location_counter, "Both") = 1
    /\ Count(location_counter, "adp only") = 1
    /\ Total(cwe_counter) = 3

-----------------------------------------------------------------------------
(* Claims about the aggregate as a whole (Spec) *)

ImpactDimensions == {"Confidentiality", "Integrity", "Availability"}

NormalLabels == {"HIGH", "LOW", "NONE", "MEDIUM", "N/A"}

AggregationRun == script \in {"cvss_metrics", "cvss_metric_plot"}

\* C23: in both aggregation loops the keys of the Confidentiality, Integrity and
\* Availability counters are normalised: within HIGH, LOW, NONE, MEDIUM, N/A.
C23_ImpactCountersNormalized ==
    AggregationRun =>
        \A d \in ImpactDimensions : BagToSet(frequency_counter[d]) \subseteq NormalLabels

\* The legacy v3 sub-block of a document, EmptyDict when it has none
LegacyV3Of(doc) ==
    IF doc.kind # "object" THEN EmptyDict
    ELSE Get(Get(Get(doc.obj, "impact", NoImpact).obj, "baseMetricV3", EmptyDict),
             "cvssV3", EmptyDict)

TakesLegacy == trace'.taken # <<>> /\ trace'.taken[1].source = "legacy"

\* C24: a legacy v3 sub-block that carries a severity label is counted by its label,
\* the base score being the fallback only: the severity counter gains the tier of the
\* label, with or without a score in the block.
C24_LegacyLabelFirst ==
    [][(Taking /\ MetricsRun /\ TakesLegacy /\ HasLabel(LegacyV3Of(data'))) =>
          LET tier == LabelTier(LegacyV3Of(data')["baseSeverity"]) IN
          frequency_counter'["SeverityLevel"] =
              IF tier = NA THEN frequency_counter["SeverityLevel"]
              ELSE Inc(frequency_counter["SeverityLevel"], tier)]_vars

\* C25: a document whose processing raises contributes nothing: the tables after the
\* failed iteration are the tables before it.
C25_FailedDocumentAtomic ==
    [][(Taking /\ trace'.exc # "") =>
          /\ UNCHANGED MetricsTables
          /\ UNCHANGED WeaknessTables]_vars

\* The tables of an iteration that starts from nothing
ZeroTables(normalize) ==
    [fc |-> EmptyCounters, auth |-> EmptyBag, v2 |-> 0, v3 |-> 0, has_metrics |-> FALSE,
     exc |-> "", taken |-> <<>>, normalize |-> normalize]

ZeroCounts == [with_metrics |-> 0, processed |-> 0]

ZeroWeakness ==
    [counter |-> EmptyBag, has_cwe |-> FALSE, found_in_cna |-> FALSE,
     found_in_adp |-> FALSE, exc |-> ""]

\* C26: what an iteration adds to the tables is the document's own contribution, the
\* same whatever the tables hold already; counters and totals being sums of these
\* contributions, every order of the documents of a batch gives the same aggregate.
C26_OrderIndependent ==
    [][Taking =>
          /\ AggregationRun =>
                \E own \in {process_document(ZeroTables(script = "cvss_metric_plot"), data')} :
                \E counts \in {after_try(own, ZeroCounts)} :
                    /\ \A k \in DOMAIN frequency_counter :
                          frequency_counter'[k] = frequency_counter[k] (+) own.fc[k]
                    /\ frequency_counter_v2' = frequency_counter_v2 (+) own.auth
                    /\ cvss_v2_files' = cvss_v2_files + own.v2
                    /\ cvss_v3_files' = cvss_v3_files + own.v3
                    /\ files_with_metrics' = files_with_metrics + counts.with_metrics
                    /\ files_processed' = files_processed + counts.processed
                    /\ total_files' = total_files + 1
          /\ WeaknessRun =>
                \E own \in {count_document(ZeroWeakness, data')} :
                \E one \in {IF own.exc = "" /\ own.has_cwe THEN 1 ELSE 0} :
                    /\ cwe_counter' = cwe_counter (+) own.counter
                    /\ files_with_cwe' = files_with_cwe + one
                    /\ Total(location_counter') = Total(location_counter) + one
                    /\ one = 1 => location_counter' = Inc(location_counter, location_of(own))
                    /\ files_processed' = files_processed + (IF own.exc = "" THEN 1 ELSE 0)
                    /\ total_files' = total_files + 1]_vars

C26_Witness ==
    /\ MetricsRun
    /\ pc = "done"
    /\ file_index = 3
    /\ data = CnaDoc(<<BlockV2>>)
    /\ docs_failed = 1
    /\ cvss_v3_files = 2
    /\ cvss_v2_files = 1
    /\ Count(frequency_counter["Attack Vector"], "N") = 3

\* The primary and secondary blocks with a known version key, and those decoded as v3
KnownBlocks(entries) ==
    {i \in 1..Len(entries) :
        entries[i].source # "legacy" /\ FirstVersionKey(entries[i].block) # ""}

V3Blocks(entries) ==
    {i \in KnownBlocks(entries) : FirstVersionKey(entries[i].block) # "cvssV2_0"}

V2Blocks(entries) ==
    {i \in KnownBlocks(entries) : FirstVersionKey(entries[i].block) = "cvssV2_0"}

\* C27: over documents processed without error the Confidentiality, Integrity,
\* Availability, Attack Vector and Attack Complexity counters all sum to the number of
\* primary and secondary blocks with a known version key, and the Privileges Required,
\* User Interaction and Scope counters to the number of those decoded as v3.
C27_TotalsConsistent ==
    /\ [][(Taking /\ MetricsRun /\ trace'.exc = "") =>
             /\ \A d \in Dimensions5 :
                   Total(frequency_counter'[d])
                       = Total(frequency_counter[d]) + Cardinality(KnownBlocks(trace'.taken))
             /\ \A d \in {"Privileges Required", "User Interaction", "Scope"} :
                   Total(frequency_counter'[d])
                       = Total(frequency_counter[d]) + Cardinality(V3Blocks(trace'.taken))]_vars
    /\ []((MetricsRun /\ docs_failed = 0) =>
             /\ \A d \in Dimensions5 :
                   Total(frequency_counter[d]) = Total(frequency_counter["Confidentiality"])
             /\ \A d \in {"Privileges Required", "User Interaction", "Scope"} :
                   /\ Total(frequency_counter[d]) = Total(frequency_counter["Scope"])
                   /\ Total(frequency_counter[d]) <= Total(frequency_counter["Confidentiality"]))

C27_Witness ==
    /\ MetricsRun
    /\ pc = "done"
    /\ docs_failed = 0
    /\ file_index = 2
    /\ Total(frequency_counter["Confidentiality"]) = 3
    /\ Total(frequency_counter["Attack Complexity"]) = 3
    /\ Total(frequency_counter["Scope"]) = 2
    /\ cvss_v2_files = 1

\* C28: a block is counted under the version it was decoded with: an iteration adds to
\* cvss_v2_files and to the Authentication counter the number of its blocks decoded as
\* v2, and to cvss_v3_files the number decoded as v3, blocks that carry both a v3 key
\* and cvssV2_0 included.
C28_CountedAsDecoded ==
    [][(Taking /\ MetricsRun /\ trace'.exc = "" /\ ~TakesLegacy) =>
          /\ cvss_v2_files' = cvss_v2_files + Cardinality(V2Blocks(trace'.taken))
          /\ cvss_v3_files' = cvss_v3_files + Cardinality(V3Blocks(trace'.taken))
          /\ Total(frequency_counter_v2')
                 = Total(frequency_counter_v2) + Cardinality(V2Blocks(trace'.taken))]_vars

\* The sum of the counts a counter holds for the values of a set
RECURSIVE SumCounts(_, _)
SumCounts(counter, values) ==
    IF values = {} THEN 0
    ELSE LET v == CHOOSE x \in values : TRUE IN
         Count(counter, v) + SumCounts(counter, values \ {v})

\* The image of a counter under normalize_impact: the counts of the values that have
\* the same normal form are added together
NormalImage(counter) ==
    [n \in {normalized_value(v) : v \in BagToSet(counter)} |->
        SumCounts(counter, {v \in BagToSet(counter) : normalized_value(v) = n})]

ImageTables(fc) ==
    [k \in DOMAIN fc |-> IF k \in ImpactDimensions THEN NormalImage(fc[k]) ELSE fc[k]]

\* C29: the two aggregation loops are equivalent up to impact normalisation: whatever
\* an iteration of cvss_metrics.py does to its tables, the iteration of
\* cvss_metric_plot.py over the same document does to the image of the tables (the
\* Confidentiality, Integrity and Availability counters mapped through
\* normalize_impact, everything else the same), with equal totals, and the
\* Authentication merge preserves the correspondence; so both return the same totals
\* and corresponding counters for every batch.
C29_EquivalentUpToNormalization ==
    [][/\ (Taking /\ MetricsRun) =>
            \E P \in {process_document(
                          [fc |-> ImageTables(frequency_counter),
                           auth |-> frequency_counter_v2,
                           v2 |-> cvss_v2_files, v3 |-> cvss_v3_files,
                           has_metrics |-> FALSE, exc |-> "", taken |-> <<>>,
                           normalize |-> TRUE], data')} :
                /\ P.fc = ImageTables(frequency_counter')
                /\ P.auth = frequency_counter_v2'
                /\ P.v2 = cvss_v2_files'
                /\ P.v3 = cvss_v3_files'
                /\ after_try(P, [with_metrics |-> files_with_metrics,
                                 processed |-> files_processed])
                       = [with_metrics |-> files_with_metrics',
                          processed |-> files_processed']
       /\ (MetricsRun /\ pc = "loop" /\ pc' = "done") =>
            merge_authentication(ImageTables(frequency_counter), frequency_counter_v2)
                = ImageTables(frequency_counter')]_vars

=============================================================================
